---------------------------- MODULE Spec2Model ----------------------------
(***************************************************************************)
(* Verification model of zk-dcap-verifier: the instance codec, the batched *)
(* ECDSA circuit (halo2-secp256r1-circuit), the p256-ecdsa prover, the     *)
(* input constructors, the proof checks and the digest binding of the      *)
(* sgx_dcap_verifier / base64 circuits.                                    *)
(*                                                                         *)
(* Scale.  TLC has 32-bit integers, so the two 256-bit fields of secp256r1 *)
(* and the 254-bit native field of BN254 are replaced by a scale model:    *)
(*   - a field element of Fp / Fq is 2 bytes wide instead of 32 (a payload *)
(*     is 10 bytes instead of 160, a signature 4 instead of 64, an         *)
(*     uncompressed public key 5 instead of 65);                           *)
(*   - the curve is y^2 = x^3 - 3x + 85 over F_269, of prime order 263,    *)
(*     with generator (2,25): like P-256 it has a = -3, prime order n < p, *)
(*     G.x < n, and the field element whose bytes are all 0x01 (257) is    *)
(*     below both moduli and is not the coordinate of a curve point        *)
(*     (257,257);                                                          *)
(*   - the native field has 26 bits (modulus 33554467), so a packed chunk  *)
(*     holds NUM_BITS / 8 = 3 bytes instead of 31, and like the 160-byte   *)
(*     payload the 10-byte payload ends in a partial chunk.                *)
(* Every operator below follows the code line by line at that scale.       *)
(***************************************************************************)
EXTENDS Integers, Sequences, FiniteSets, TLC

VARIABLES codec, batch, prover, input, check, digest, chain, once, exec, keys, agg, signer, unpacker, layout, parsing, encoding, loader, binding, base64

vars == <<codec, batch, prover, input, check, digest, chain, once, exec, keys, agg, signer, unpacker, layout, parsing, encoding, loader, binding, base64>>

(***************************************************************************)
(* Scale parameters (see the header).                                      *)
(***************************************************************************)
Scale == [ fieldBytes |-> 2,         \* 32 in the code
           frBits     |-> 26,        \* F::NUM_BITS, 254 in the code
           frModulus  |-> 33554467,  \* modulus of the native field
           p |-> 269, n |-> 263, a |-> 266, b |-> 85, gx |-> 2, gy |-> 25,
           numLimbs |-> 3, limbBits |-> 4 ]  \* 3 limbs of 88 bits in the code

FieldBytes == Scale.fieldBytes
PayloadLen == 5 * FieldBytes          \* 160 in the code
FrModulus  == Scale.frModulus
FrBytes    == Scale.frBits \div 8     \* fr_bytes = (F::NUM_BITS / 8)
P == Scale.p
Q == Scale.n
Byte == 0..255

(***************************************************************************)
(* Bounds of the exploration.                                              *)
(***************************************************************************)
MaxMsgLen == 6

\* the bytes the explored messages are made of
MsgBytes == {0, 1, 255}

RECURSIVE SeqsUpTo(_, _)
SeqsUpTo(S, k) ==
  IF k = 0 THEN { <<>> }
  ELSE LET shorter == SeqsUpTo(S, k - 1)
       IN  shorter \cup { Append(s, x) : s \in { t \in shorter : Len(t) = k - 1 }, x \in S }

Min(x, y) == IF x <= y THEN x ELSE y

RECURSIVE Pow(_, _)
Pow(base, e) == IF e = 0 THEN 1 ELSE base * Pow(base, e - 1)

(***************************************************************************)
(* Native field helpers.                                                   *)
(***************************************************************************)
\* F::from(v as u64)
FrFrom(v) == v % FrModulus

\* F::from_bytes_le(bytes): the little-endian value of the bytes
RECURSIVE FromBytesLe(_)
FromBytesLe(bytes) ==
  IF bytes = <<>> THEN 0 ELSE Head(bytes) + 256 * FromBytesLe(Tail(bytes))

\* f.to_bytes_le()[..k]: the k low bytes of f, least significant first
ToBytesLe(f, k) == [ i \in 1..k |-> (f \div Pow(256, i - 1)) % 256 ]

(***************************************************************************)
(* Instance codec.                                                         *)
(***************************************************************************)
\* one turn of the loop of pack: reader.read(&mut tmp) copies
\* min(len(reader), len(tmp)) bytes to the front of tmp and leaves the other
\* bytes of tmp as they were; Ok(0) ends the loop
RECURSIVE PackLoop(_, _, _)
PackLoop(reader, tmp, output) ==
  IF reader = <<>> THEN output
  ELSE LET got  == Min(Len(reader), Len(tmp))
           tmp2 == [ i \in 1..Len(tmp) |-> IF i <= got THEN reader[i] ELSE tmp[i] ]
       IN  PackLoop(SubSeq(reader, got + 1, Len(reader)), tmp2,
                    Append(output, FromBytesLe(tmp2)))

pack(msg) ==
  PackLoop(msg, [ i \in 1..FrBytes |-> 0 ], << FrFrom(Len(msg)) >>)

\* variant: the row count rounded down
cal_row_size_RoundDown(total, single) == total \div single

cal_row_size(total, single) ==
  IF total % single = 0 THEN total \div single ELSE (total \div single) + 1

\* region.instance_value(column, row): rows past the supplied values hold zero
InstanceValue(column, row) ==
  IF row + 1 <= Len(column) THEN column[row + 1] ELSE 0

RECURSIVE ReadChunks(_, _, _, _)
ReadChunks(column, start_row, i, instance_size) ==
  IF i >= instance_size THEN <<>>
  ELSE ToBytesLe(InstanceValue(column, start_row + i + 1), FrBytes)
         \o ReadChunks(column, start_row, i + 1, instance_size)

\* msg.truncate(len)
\* variant: the bytes of the last chunk beyond the length are kept
Truncate_KeepAll(s, len) == s

Truncate(s, len) == SubSeq(s, 1, Min(len, Len(s)))

read_unpack(column, start_row) ==
  LET msg_len       == InstanceValue(column, start_row)
      instance_size == cal_row_size(msg_len, FrBytes)
  IN  Truncate(ReadChunks(column, start_row, 0, instance_size), msg_len)

(***************************************************************************)
(* Codec specification: a message is packed, then read back.               *)
(***************************************************************************)
CodecMsgs == SeqsUpTo(MsgBytes, MaxMsgLen)

CodecIdle == [ stage |-> "idle", msg |-> <<>>, packed |-> <<>>, out |-> <<>> ]

CodecInit == codec \in { [ stage |-> "input", msg |-> m, packed |-> <<>>, out |-> <<>> ]
                         : m \in CodecMsgs }

CodecPack ==
  /\ codec.stage = "input"
  /\ codec' = [ codec EXCEPT !.stage = "packed", !.packed = pack(codec.msg) ]
  /\ UNCHANGED <<batch, prover, input, check, digest, chain, once, exec, keys, agg, signer, unpacker, layout, parsing, encoding, loader, binding, base64>>

CodecUnpack ==
  /\ codec.stage = "packed"
  /\ codec' = [ codec EXCEPT !.stage = "unpacked", !.out = read_unpack(codec.packed, 0) ]
  /\ UNCHANGED <<batch, prover, input, check, digest, chain, once, exec, keys, agg, signer, unpacker, layout, parsing, encoding, loader, binding, base64>>

(***************************************************************************)
(* secp256r1 at scale: field and curve arithmetic, as halo2-ecc computes   *)
(* it for ecdsa_verify_no_pubkey_check.                                    *)
(***************************************************************************)
Reverse(s) == [ i \in 1..Len(s) |-> s[Len(s) + 1 - i] ]

\* a field element as FieldBytes big-endian bytes, and back
ToBytesBe(v) == Reverse(ToBytesLe(v, FieldBytes))

FromBytesBe(bytes) == FromBytesLe(Reverse(bytes))

\* x.invert() in the field of modulus m, for x not a multiple of m
InvMod(x, m) == CHOOSE y \in 1..(m - 1) : (x * y) % m = 1

Infinity == [ inf |-> TRUE, x |-> 0, y |-> 0 ]

Point(x, y) == [ inf |-> FALSE, x |-> x, y |-> y ]

Generator == Point(Scale.gx, Scale.gy)

\* the curve formulas are applied to the coordinates as given: no step checks
\* that a point is on the curve
EcDouble(A) ==
  IF A.inf \/ (2 * A.y) % P = 0 THEN Infinity
  ELSE LET l  == ((3 * A.x * A.x + Scale.a) * InvMod(2 * A.y, P)) % P
           x3 == (l * l - 2 * A.x) % P
       IN  Point(x3, (l * (A.x - x3) - A.y) % P)

EcAdd(A, B) ==
  IF A.inf THEN B
  ELSE IF B.inf THEN A
  ELSE IF A.x = B.x THEN (IF A.y = B.y THEN EcDouble(A) ELSE Infinity)
  ELSE LET l  == ((B.y - A.y) * InvMod(B.x - A.x, P)) % P
           x3 == (l * l - A.x - B.x) % P
       IN  Point(x3, (l * (A.x - x3) - A.y) % P)

\* left-to-right double-and-add
AddIfOdd(k, half, A) == IF k % 2 = 1 THEN EcAdd(half, A) ELSE half

RECURSIVE ScalarMul(_, _)
ScalarMul(k, A) ==
  IF k = 0 THEN Infinity
  ELSE AddIfOdd(k, EcDouble(ScalarMul(k \div 2, A)), A)

\* the pass boolean of one slot: r and s in [1, n-1], u1 = m/s, u2 = r/s,
\* u1*G and u2*PK with distinct x, and x(u1*G + u2*PK) equal to r
SumIsR(u1_mul, u2_mul, sum, r) ==
  IF /\ ~ u1_mul.inf /\ ~ u2_mul.inf
     /\ u1_mul.x # u2_mul.x
     /\ ~ sum.inf /\ sum.x = r
  THEN 1 ELSE 0

AddAndCompare(u1_mul, u2_mul, r) == SumIsR(u1_mul, u2_mul, EcAdd(u1_mul, u2_mul), r)

VerifyWithInverse(pk, r, m, s_inv) ==
  AddAndCompare(ScalarMul((m * s_inv) % Q, Generator),
                ScalarMul((r * s_inv) % Q, pk), r)

ecdsa_verify_no_pubkey_check(pk, r, s, m) ==
  IF ~ (r \in 1..(Q - 1) /\ s \in 1..(Q - 1)) THEN 0
  ELSE VerifyWithInverse(pk, r, m, InvMod(s, Q))

\* custom_parameters_ecdsa: the signature (r, s) of the key sk over msg_hash
\* with nonce k
SignWithR(sk, msg_hash, k, r) ==
  [ r |-> r, s |-> (InvMod(k, Q) * (msg_hash + r * sk)) % Q ]

Sign(sk, msg_hash, k) == SignWithR(sk, msg_hash, k, ScalarMul(k, Generator).x % Q)

(***************************************************************************)
(* SHA-256 at scale: a FieldBytes-wide digest that depends on every byte   *)
(* and on the length of the message.                                       *)
(***************************************************************************)
RECURSIVE Compress(_, _)
Compress(h, msg) ==
  IF msg = <<>> THEN h ELSE Compress((3 * h + Head(msg) + 1) % Q, Tail(msg))

Sha256(msg) == ToBytesBe(Compress(7, msg))

(***************************************************************************)
(* Secp256r1Instance and EcdsaParams.                                      *)
(***************************************************************************)
Secp256r1Instance_default == [ pubkey |-> <<>>, sig |-> <<>>, msg |-> <<>> ]

msg_hash(inst) == Sha256(inst.msg)

\* variant: the placeholder payload is the signature (G.x, G.x + 1) of the key
\* G over the hash 1
payload_ValidPlaceholder(inst) ==
  LET p == msg_hash(inst) \o inst.pubkey \o inst.sig
  IN  IF Len(p) = FieldBytes /\ Len(inst.msg) = 0
      THEN ToBytesBe(1) \o ToBytesBe(Scale.gx) \o ToBytesBe(Scale.gy)
             \o ToBytesBe(Scale.gx) \o ToBytesBe(Scale.gx + 1)
      ELSE p

payload(inst) ==
  LET p == msg_hash(inst) \o inst.pubkey \o inst.sig
  IN  IF Len(p) = FieldBytes /\ Len(inst.msg) = 0
      THEN [ i \in 1..PayloadLen |-> 1 ]
      ELSE p

EcdsaParams_keygen == [ msg_hash |-> 1, x |-> 1, y |-> 1, r |-> 1, s |-> 1 ]

\* the k-th FieldBytes-wide slice of msg, reversed and read little-endian
ParseField(msg, k) ==
  FromBytesLe(Reverse(SubSeq(msg, (k - 1) * FieldBytes + 1, k * FieldBytes)))

\* EcdsaParams::parse: a slice past the end of msg panics, and so does
\* from_bytes_le on a value that is not below the modulus; bytes after the
\* fifth field are not looked at
EcdsaParams_parse(msg) ==
  IF Len(msg) < PayloadLen THEN [ panic |-> TRUE, params |-> EcdsaParams_keygen ]
  ELSE IF \/ ParseField(msg, 1) >= Q \/ ParseField(msg, 2) >= P
          \/ ParseField(msg, 3) >= P \/ ParseField(msg, 4) >= Q
          \/ ParseField(msg, 5) >= Q
       THEN [ panic |-> TRUE, params |-> EcdsaParams_keygen ]
  ELSE [ panic  |-> FALSE,
         params |-> [ msg_hash |-> ParseField(msg, 1), x |-> ParseField(msg, 2),
                      y |-> ParseField(msg, 3), r |-> ParseField(msg, 4),
                      s |-> ParseField(msg, 5) ] ]

\* the pass boolean the circuit computes for one slot
SlotPass(params) ==
  ecdsa_verify_no_pubkey_check(Point(params.x, params.y), params.r, params.s,
                               params.msg_hash)

(***************************************************************************)
(* The instances the batch circuit is explored with.                       *)
(***************************************************************************)
\* a genuine instance: msg signed by the key sk with nonce k
\* a point as x || y and a signature as r || s, big-endian
PointBytes(pk) == ToBytesBe(pk.x) \o ToBytesBe(pk.y)

SigBytes(sig) == ToBytesBe(sig.r) \o ToBytesBe(sig.s)

GenuineInstance(sk, k, msg) ==
  [ pubkey |-> PointBytes(ScalarMul(sk, Generator)),
    sig    |-> SigBytes(Sign(sk, FromBytesBe(Sha256(msg)), k)),
    msg    |-> msg ]

Genuine1 == GenuineInstance(2, 3, <<1, 2>>)

Genuine2 == GenuineInstance(3, 1, <<7>>)

\* Genuine1 with the last byte of its signature changed
CorruptedSig == [ Genuine1 EXCEPT !.sig[2 * FieldBytes] = (@ + 1) % Q ]

\* Genuine1 with one byte of its message changed
TamperedMsg == [ Genuine1 EXCEPT !.msg[2] = 3 ]

InstanceCatalog ==
  { Genuine1, Genuine2, CorruptedSig, TamperedMsg, Secp256r1Instance_default }

(***************************************************************************)
(* Secp256r1Circuit<F, N>.                                                 *)
(***************************************************************************)
BatchN == 2

params_size == cal_row_size(PayloadLen, FrBytes) + 1

RECURSIVE PackAll(_)
PackAll(payloads) ==
  IF payloads = <<>> THEN <<>> ELSE pack(Head(payloads)) \o PackAll(Tail(payloads))

Secp256r1Circuit_default ==
  [ instances |-> [ i \in 1..(BatchN * params_size) |-> 0 ], min_pass |-> 0 ]

\* variant: min_pass counts the placeholder slots too
Secp256r1Circuit_new_CountAll(instances) ==
  LET placeholder == payload(Secp256r1Instance_default)
  IN  [ instances |->
          PackAll([ i \in 1..Len(instances) |-> payload(instances[i]) ])
            \o PackAll([ i \in 1..(BatchN - Len(instances)) |-> placeholder ]),
        min_pass  |-> FrFrom(BatchN) ]

\* Secp256r1Circuit::new, past its assert!(instances.len() <= N)
Secp256r1Circuit_new(instances) ==
  LET placeholder == payload(Secp256r1Instance_default)
  IN  [ instances |->
          PackAll([ i \in 1..Len(instances) |-> payload(instances[i]) ])
            \o PackAll([ i \in 1..(BatchN - Len(instances)) |-> placeholder ]),
        min_pass  |-> FrFrom(Len(instances)) ]

\* circuit.instances(): the two instance columns
CircuitInstances(circuit) ==
  [ ecdsa_params |-> circuit.instances, min_pass |-> << circuit.min_pass >> ]

\* the loop of synthesize: what each row of the ecdsa_params column parses to
SynthesizeRow(column, row) ==
  LET raw == read_unpack(column, row * params_size)
  IN  IF Len(raw) = 0 THEN [ panic |-> FALSE, params |-> EcdsaParams_keygen ]
      ELSE EcdsaParams_parse(raw)

\* the values synthesize hands to assign: the parsed rows and the value read
\* from the min_pass column
SynthesizeWitness(columns) ==
  [ params   |-> [ i \in 1..BatchN |-> SynthesizeRow(columns.ecdsa_params, i - 1).params ],
    min_pass |-> InstanceValue(columns.min_pass, 0) ]

\* a zero s makes the inversion in the signature check panic
SynthesizePanics(columns) ==
  \E i \in 1..BatchN :
     \/ SynthesizeRow(columns.ecdsa_params, i - 1).panic
     \/ SynthesizeRow(columns.ecdsa_params, i - 1).params.s = 0

RECURSIVE SumSeq(_)
SumSeq(s) == IF s = <<>> THEN 0 ELSE Head(s) + SumSeq(Tail(s))

\* gate.sum(vals): the sum of the pass booleans of the loaded slots
PassSum(params_list) ==
  SumSeq([ i \in 1..Len(params_list) |-> SlotPass(params_list[i]) ])

\* the constraints of assign over its advice cells: each slot's pass boolean
\* is the signature check of the m, r, s, pk loaded for that slot, and the sum
\* of the pass booleans equals the cell witnessed from min_pass.  No
\* constraint ties an advice cell to an instance cell.
Satisfied(witness) == PassSum(witness.params) = witness.min_pass

\* the triples an advice assignment may hold besides the parsed ones
AdviceParams ==
  { EcdsaParams_parse(payload(Genuine1)).params,
    EcdsaParams_parse(payload(Genuine2)).params,
    EcdsaParams_keygen }

AdviceWitnesses ==
  { [ params |-> ps, min_pass |-> k ] :
      ps \in [ 1..BatchN -> AdviceParams ], k \in 0..BatchN }

NoCircuit == [ instances |-> <<>>, min_pass |-> 0 ]
NoWitness == [ params |-> <<>>, min_pass |-> 0 ]
NoProof   == [ columns |-> [ ecdsa_params |-> <<>>, min_pass |-> <<>> ], valid |-> FALSE ]

BatchIdle ==
  [ stage |-> "idle", input |-> <<>>, circuit |-> NoCircuit, witness |-> NoWitness,
    synthesized |-> FALSE, proof |-> NoProof, success |-> FALSE ]

BatchInit ==
  batch \in { [ BatchIdle EXCEPT !.stage = "input", !.input = l ] :
                l \in SeqsUpTo(InstanceCatalog, BatchN + 1) }

\* Secp256r1Circuit::new panics on more than N instances
BatchNew ==
  /\ batch.stage = "input"
  /\ batch' = IF Len(batch.input) <= BatchN
              THEN [ batch EXCEPT !.stage = "built",
                                  !.circuit = Secp256r1Circuit_new(batch.input) ]
              ELSE [ batch EXCEPT !.stage = "panic" ]
  /\ UNCHANGED <<codec, prover, input, check, digest, chain, once, exec, keys, agg, signer, unpacker, layout, parsing, encoding, loader, binding, base64>>

\* synthesize run on the circuit's own instance columns
BatchSynthesize ==
  /\ batch.stage = "built"
  /\ batch' = IF SynthesizePanics(CircuitInstances(batch.circuit))
              THEN [ batch EXCEPT !.stage = "panic" ]
              ELSE [ batch EXCEPT !.stage = "assigned", !.synthesized = TRUE,
                        !.witness = SynthesizeWitness(CircuitInstances(batch.circuit)) ]
  /\ UNCHANGED <<codec, prover, input, check, digest, chain, once, exec, keys, agg, signer, unpacker, layout, parsing, encoding, loader, binding, base64>>

\* any other assignment of the advice cells that assign creates
BatchAssignAdvice ==
  /\ batch.stage = "built"
  /\ \E w \in AdviceWitnesses :
        batch' = [ batch EXCEPT !.stage = "assigned", !.witness = w ]
  /\ UNCHANGED <<codec, prover, input, check, digest, chain, once, exec, keys, agg, signer, unpacker, layout, parsing, encoding, loader, binding, base64>>

\* EvmProver::generate_proof: the proof of the assigned cells for the
\* circuit's instance columns; it verifies exactly if the cells satisfy the
\* constraints
BatchGenerateProof ==
  /\ batch.stage = "assigned"
  /\ batch' = [ batch EXCEPT !.stage = "proved",
                  !.proof = [ columns |-> CircuitInstances(batch.circuit),
                              valid   |-> Satisfied(batch.witness) ] ]
  /\ UNCHANGED <<codec, prover, input, check, digest, chain, once, exec, keys, agg, signer, unpacker, layout, parsing, encoding, loader, binding, base64>>

\* EvmProver::evm_verify with the deployment code generated for the circuit
BatchEvmVerify ==
  /\ batch.stage = "proved"
  /\ batch' = [ batch EXCEPT !.stage = "checked", !.success = batch.proof.valid ]
  /\ UNCHANGED <<codec, prover, input, check, digest, chain, once, exec, keys, agg, signer, unpacker, layout, parsing, encoding, loader, binding, base64>>

(***************************************************************************)
(* ECDSAInput (p256-ecdsa).                                                *)
(***************************************************************************)
\* variant: s equal to r
ECDSAInput_default_EqualRS ==
  [ r |-> Generator.x, s |-> Generator.x, msghash |-> 1,
    x |-> Generator.x, y |-> Generator.y ]

\* r is the x coordinate of the generator read as a scalar
ECDSAInput_default ==
  [ r |-> Generator.x, s |-> (Generator.x + 1) % Q, msghash |-> 1,
    x |-> Generator.x, y |-> Generator.y ]

Ok(v)  == [ kind |-> "ok", value |-> v ]
Err    == [ kind |-> "err", value |-> ECDSAInput_default ]
Panic  == [ kind |-> "panic", value |-> ECDSAInput_default ]

\* ECDSAInput::new: five assert_eq! on the lengths, then from_bytes on the
\* reversed bytes, which gives no value for a number not below the modulus
ECDSAInput_new(msghash, r, s, x, y) ==
  IF \/ Len(msghash) # FieldBytes \/ Len(r) # FieldBytes \/ Len(s) # FieldBytes
     \/ Len(x) # FieldBytes \/ Len(y) # FieldBytes
  THEN Panic
  ELSE IF \/ FromBytesLe(Reverse(msghash)) >= Q \/ FromBytesLe(Reverse(r)) >= Q
          \/ FromBytesLe(Reverse(s)) >= Q \/ FromBytesLe(Reverse(x)) >= P
          \/ FromBytesLe(Reverse(y)) >= P
       THEN Err
  ELSE Ok([ msghash |-> FromBytesLe(Reverse(msghash)), r |-> FromBytesLe(Reverse(r)),
            s |-> FromBytesLe(Reverse(s)), x |-> FromBytesLe(Reverse(x)),
            y |-> FromBytesLe(Reverse(y)) ])

ECDSAInput_try_from_bytes(msghash, signature, pubkey) ==
  IF Len(signature) # 2 * FieldBytes THEN Err
  ELSE IF Len(pubkey) # 2 * FieldBytes + 1 THEN Err
  ELSE ECDSAInput_new(msghash,
                      SubSeq(signature, 1, FieldBytes),
                      SubSeq(signature, FieldBytes + 1, 2 * FieldBytes),
                      SubSeq(pubkey, 2, FieldBytes + 1),
                      SubSeq(pubkey, FieldBytes + 2, 2 * FieldBytes + 1))

\* text is a sequence of one-character strings
HexDigits ==
  << "0", "1", "2", "3", "4", "5", "6", "7", "8", "9", "a", "b", "c", "d", "e", "f" >>

IsHexDigit(c) == \E i \in 1..16 : HexDigits[i] = c

HexValue(c) == (CHOOSE i \in 1..16 : HexDigits[i] = c) - 1

\* hex::decode: an error on an odd length or on a character that is no digit
HexDecodable(text) ==
  Len(text) % 2 = 0 /\ \A i \in 1..Len(text) : IsHexDigit(text[i])

HexDecode(text) ==
  [ i \in 1..(Len(text) \div 2) |-> 16 * HexValue(text[2 * i - 1]) + HexValue(text[2 * i]) ]

RECURSIVE HexEncode(_)
HexEncode(bytes) ==
  IF bytes = <<>> THEN <<>>
  ELSE << HexDigits[(Head(bytes) \div 16) + 1], HexDigits[(Head(bytes) % 16) + 1] >>
         \o HexEncode(Tail(bytes))

\* &text[2..]
Skip2(text) == SubSeq(text, 3, Len(text))

\* ECDSAInput::try_from_hex: each argument is sliced from its third character
\* (a panic on a shorter string) and decoded (an error) in turn
ECDSAInput_try_from_hex(msghash, signature, pubkey) ==
  IF Len(msghash) < 2 THEN Panic
  ELSE IF ~ HexDecodable(Skip2(msghash)) THEN Err
  ELSE IF Len(signature) < 2 THEN Panic
  ELSE IF ~ HexDecodable(Skip2(signature)) THEN Err
  ELSE IF Len(pubkey) < 2 THEN Panic
  ELSE IF ~ HexDecodable(Skip2(pubkey)) THEN Err
  ELSE LET sig == HexDecode(Skip2(signature))
           pk  == HexDecode(Skip2(pubkey))
       IN  IF Len(sig) # 2 * FieldBytes THEN Err
           ELSE IF Len(pk) # 2 * FieldBytes + 1 THEN Err
           ELSE ECDSAInput_new(HexDecode(Skip2(msghash)),
                               SubSeq(sig, 1, FieldBytes),
                               SubSeq(sig, FieldBytes + 1, 2 * FieldBytes),
                               SubSeq(pk, 2, FieldBytes + 1),
                               SubSeq(pk, FieldBytes + 2, 2 * FieldBytes + 1))

\* variant: the limbs of the low 2 * LIMB_BITS bits of x only
Decompose_LowBits(x) ==
  [ i \in 1..Scale.numLimbs |->
      ((x % Pow(2, 2 * Scale.limbBits)) \div Pow(Pow(2, Scale.limbBits), i - 1))
        % Pow(2, Scale.limbBits) ]

\* decompose_biguint(x, NUM_LIMBS, LIMB_BITS): the limbs of x, lowest first
Decompose(x) ==
  [ i \in 1..Scale.numLimbs |-> (x \div Pow(Pow(2, Scale.limbBits), i - 1)) % Pow(2, Scale.limbBits) ]

as_instances(v) ==
  Decompose(v.msghash) \o Decompose(v.r) \o Decompose(v.s) \o Decompose(v.x) \o Decompose(v.y)

(***************************************************************************)
(* The arguments the input constructors are explored with.                 *)
(***************************************************************************)
GoodMsghash == msg_hash(Genuine1)
GoodSig     == Genuine1.sig
GoodPubkey  == << 4 >> \o Genuine1.pubkey

\* a right-length field whose value, 263, is not below the scalar modulus
NonCanonical == << 1, 7 >>

DropLast(s) == SubSeq(s, 1, Len(s) - 1)

ByteArgs(good) == { good, DropLast(good), good \o << 0 >> }

Prefixed(bytes) == << "0", "x" >> \o HexEncode(bytes)

HexArgs(good) ==
  { Prefixed(b) : b \in ByteArgs(good) }
    \cup { HexEncode(good), << "0" >>, << "0", "x", "z", "z" >>, DropLast(Prefixed(good)) }

InputIdle == [ stage |-> "idle", fn |-> "", args |-> <<>>, outcome |-> Err ]

InputCalls ==
  { [ fn |-> "try_from_bytes", args |-> << m, sg, pk >> ] :
      m \in ByteArgs(GoodMsghash) \cup { NonCanonical },
      sg \in ByteArgs(GoodSig), pk \in ByteArgs(GoodPubkey) }
  \cup
  { [ fn |-> "try_from_hex", args |-> << m, sg, pk >> ] :
      m \in HexArgs(GoodMsghash), sg \in HexArgs(GoodSig), pk \in HexArgs(GoodPubkey) }
  \cup
  { [ fn |-> "new", args |-> << m, r, SubSeq(GoodSig, FieldBytes + 1, 2 * FieldBytes), x,
                                SubSeq(GoodPubkey, FieldBytes + 2, 2 * FieldBytes + 1) >> ] :
      m \in ByteArgs(GoodMsghash) \cup { NonCanonical },
      r \in ByteArgs(SubSeq(GoodSig, 1, FieldBytes)),
      x \in ByteArgs(SubSeq(GoodPubkey, 2, FieldBytes + 1)) }
  \cup
  { [ fn |-> "parse", args |-> << raw >> ] :
      raw \in ByteArgs(payload(Genuine1)) \cup { payload(Secp256r1Instance_default) } }

InputInit ==
  input \in { [ InputIdle EXCEPT !.stage = "call", !.fn = c.fn, !.args = c.args ] :
                c \in InputCalls }

InputTryFromBytes ==
  /\ input.stage = "call" /\ input.fn = "try_from_bytes"
  /\ input' = [ input EXCEPT !.stage = "done",
                  !.outcome = ECDSAInput_try_from_bytes(input.args[1], input.args[2],
                                                        input.args[3]) ]
  /\ UNCHANGED <<codec, batch, prover, check, digest, chain, once, exec, keys, agg, signer, unpacker, layout, parsing, encoding, loader, binding, base64>>

InputTryFromHex ==
  /\ input.stage = "call" /\ input.fn = "try_from_hex"
  /\ input' = [ input EXCEPT !.stage = "done",
                  !.outcome = ECDSAInput_try_from_hex(input.args[1], input.args[2],
                                                      input.args[3]) ]
  /\ UNCHANGED <<codec, batch, prover, check, digest, chain, once, exec, keys, agg, signer, unpacker, layout, parsing, encoding, loader, binding, base64>>

InputNew ==
  /\ input.stage = "call" /\ input.fn = "new"
  /\ input' = [ input EXCEPT !.stage = "done",
                  !.outcome = ECDSAInput_new(input.args[1], input.args[2], input.args[3],
                                             input.args[4], input.args[5]) ]
  /\ UNCHANGED <<codec, batch, prover, check, digest, chain, once, exec, keys, agg, signer, unpacker, layout, parsing, encoding, loader, binding, base64>>

\* EcdsaParams::parse returns Some(param) or panics
InputParse ==
  /\ input.stage = "call" /\ input.fn = "parse"
  /\ input' = [ input EXCEPT !.stage = "done",
                  !.outcome = IF EcdsaParams_parse(input.args[1]).panic
                              THEN Panic ELSE Ok(ECDSAInput_default) ]
  /\ UNCHANGED <<codec, batch, prover, check, digest, chain, once, exec, keys, agg, signer, unpacker, layout, parsing, encoding, loader, binding, base64>>

(***************************************************************************)
(* ECDSAProver (p256-ecdsa).                                               *)
(***************************************************************************)
BATCH_SIZE == 4

MaxInputs == 5

ValidInput == ECDSAInput_try_from_bytes(GoodMsghash, GoodSig, GoodPubkey).value

InvalidInput ==
  ECDSAInput_try_from_bytes(GoodMsghash, CorruptedSig.sig, GoodPubkey).value

ProverInputs == { ValidInput, InvalidInput, ECDSAInput_default }

\* ecdsa_test: the pass boolean of one input
InputPass(v) ==
  ecdsa_verify_no_pubkey_check(Point(v.x, v.y), v.r, v.s, v.msghash)

\* the circuit function of the prover: the signature check of one slot must
\* give 1
ecdsa_verify(slot) == InputPass(slot) = 1

\* [input, vec![ECDSAInput::default(); 4]].concat()[..4]
PadInputs(in) ==
  SubSeq(in \o [ i \in 1..BATCH_SIZE |-> ECDSAInput_default ], 1, BATCH_SIZE)

RECURSIVE FlatInstances(_)
FlatInstances(slots) ==
  IF slots = <<>> THEN <<>> ELSE as_instances(Head(slots)) \o FlatInstances(Tail(slots))

\* gen_proof / gen_evm_proof_shplonk: a proof for the instance vector, valid
\* exactly if the witness satisfies the circuit
GenProof(slots) ==
  [ instances |-> FlatInstances(slots),
    valid     |-> \A i \in 1..Len(slots) : ecdsa_verify(slots[i]) ]

\* verify_proof / deploy_and_call against the verifying key: the instance
\* values are part of what the proof is checked against
VerifyProof(proof, instances) == proof.valid /\ proof.instances = instances

GarbageProof == [ instances |-> <<>>, valid |-> FALSE ]

ProverIdle ==
  [ stage |-> "idle", input |-> <<>>, evm |-> FALSE, debug_assertions |-> FALSE,
    proof |-> GarbageProof, verified |-> FALSE ]

\* debug_assertions is the build the crate was compiled in
ProverInit ==
  prover \in { [ ProverIdle EXCEPT !.stage = "call", !.input = l, !.evm = e,
                                   !.debug_assertions = d ] :
                 l \in SeqsUpTo(ProverInputs, MaxInputs), e \in BOOLEAN, d \in BOOLEAN }

\* ECDSAProver::create_proof: the check of the proof and assert!(accept) are
\* compiled in under cfg(debug_assertions) only
ProverCreateProof ==
  /\ prover.stage = "call"
  /\ LET slots     == PadInputs(prover.input)
         instances == FlatInstances(slots)
         proof     == GenProof(slots)
     IN  prover' =
           IF prover.debug_assertions
           THEN IF VerifyProof(proof, instances)
                THEN [ prover EXCEPT !.stage = "returned", !.proof = proof,
                                     !.verified = TRUE ]
                ELSE [ prover EXCEPT !.stage = "panic" ]
           ELSE [ prover EXCEPT !.stage = "returned", !.proof = proof ]
  /\ UNCHANGED <<codec, batch, input, check, digest, chain, once, exec, keys, agg, signer, unpacker, layout, parsing, encoding, loader, binding, base64>>

(***************************************************************************)
(* Checking a supplied proof: P256Ecdsa::inner_verify_proof, run(Verify)    *)
(* and EvmProver::evm_verify.                                              *)
(***************************************************************************)
ProofCatalog ==
  << GenProof(PadInputs(<< ValidInput >>)), GenProof(PadInputs(<<>>)),
     GenProof(PadInputs(<< InvalidInput >>)), GarbageProof >>

\* the bytes of the i-th proof of the catalog, and the proof some bytes are
ProofBytes(i) == << i >>

ProofAt(catalog, bytes) ==
  IF Len(bytes) = 1 /\ bytes[1] \in 1..Len(catalog) THEN catalog[bytes[1]]
  ELSE GarbageProof

ProofOfBytes(bytes) == ProofAt(ProofCatalog, bytes)

\* both branches end in .is_ok()
inner_verify_proof(proof, in, evm) == VerifyProof(proof, as_instances(in))

\* read_raw_or_file: a literal loses its "0x"; anything else is the path of a
\* file, which no explored argument names (read_to_string(..).unwrap())
IsLiteral(raw) == Len(raw) >= 2 /\ raw[1] = "0" /\ raw[2] = "x"

\* P256Ecdsa::run on Verify: "true" or "false" printed, an Err returned, or a
\* panic
run_Verify(msghash, signature, pubkey, proof, evm) ==
  IF ~ (IsLiteral(msghash) /\ IsLiteral(signature) /\ IsLiteral(pubkey) /\ IsLiteral(proof))
  THEN "panic"
  ELSE LET in == ECDSAInput_try_from_hex(Skip2(msghash), Skip2(signature), Skip2(pubkey))
       IN  IF in.kind = "panic" THEN "panic"
           ELSE IF in.kind = "err" THEN "error"
           ELSE IF ~ HexDecodable(Skip2(proof)) THEN "error"
           ELSE IF inner_verify_proof(ProofOfBytes(HexDecode(Skip2(proof))), in.value, evm)
                THEN "true" ELSE "false"

\* deployment code: the generated verifier, code whose creation fails, and
\* code that deploys a contract accepting every call
DeploymentCodes == { "verifier", "reverting", "accepting" }

\* EvmProver::evm_verify: deploy(..).address.unwrap(), then success is
\* !result.reverted
evm_verify(instances, proof, deployment_code) ==
  IF deployment_code = "reverting" THEN "panic"
  ELSE IF deployment_code = "accepting" THEN "true"
  ELSE IF VerifyProof(proof, instances) THEN "true" ELSE "false"

CheckIdle ==
  [ stage |-> "idle", op |-> "", proof |-> GarbageProof, in |-> ECDSAInput_default,
    evm |-> FALSE, code |-> "", args |-> <<>>, outcome |-> "" ]

CliArgs(good) == { Prefixed(good), << "0", "x" >> \o Prefixed(good), HexEncode(good) }

CliProofs ==
  { << "0", "x" >> \o HexEncode(ProofBytes(i)) : i \in 1..Len(ProofCatalog) }
    \cup { << "0", "x", "z", "z" >>, << "0", "x" >> \o Prefixed(ProofBytes(1)) }

CheckInit ==
  check \in
    { [ CheckIdle EXCEPT !.stage = "call", !.op = "inner_verify_proof",
                         !.proof = ProofCatalog[i], !.in = v, !.evm = e ] :
        i \in 1..Len(ProofCatalog), v \in ProverInputs, e \in BOOLEAN }
    \cup
    { [ CheckIdle EXCEPT !.stage = "call", !.op = "evm_verify",
                         !.proof = ProofCatalog[i], !.in = v, !.code = c ] :
        i \in 1..Len(ProofCatalog), v \in ProverInputs, c \in DeploymentCodes }
    \cup
    { [ CheckIdle EXCEPT !.stage = "call", !.op = "run", !.evm = e,
                         !.args = << m, sg, pk, pf >> ] :
        m \in CliArgs(GoodMsghash), sg \in CliArgs(GoodSig), pk \in CliArgs(GoodPubkey),
        pf \in CliProofs, e \in BOOLEAN }

CheckInnerVerifyProof ==
  /\ check.stage = "call" /\ check.op = "inner_verify_proof"
  /\ check' = [ check EXCEPT !.stage = "done",
                  !.outcome = IF inner_verify_proof(check.proof, check.in, check.evm)
                              THEN "true" ELSE "false" ]
  /\ UNCHANGED <<codec, batch, prover, input, digest, chain, once, exec, keys, agg, signer, unpacker, layout, parsing, encoding, loader, binding, base64>>

\* the instances handed to evm_verify are those of the batch of check.in
CheckEvmVerify ==
  /\ check.stage = "call" /\ check.op = "evm_verify"
  /\ check' = [ check EXCEPT !.stage = "done",
                  !.outcome = evm_verify(FlatInstances(PadInputs(<< check.in >>)),
                                         check.proof, check.code) ]
  /\ UNCHANGED <<codec, batch, prover, input, digest, chain, once, exec, keys, agg, signer, unpacker, layout, parsing, encoding, loader, binding, base64>>

CheckRunVerify ==
  /\ check.stage = "call" /\ check.op = "run"
  /\ check' = [ check EXCEPT !.stage = "done",
                  !.outcome = run_Verify(check.args[1], check.args[2], check.args[3],
                                         check.args[4], check.evm) ]
  /\ UNCHANGED <<codec, batch, prover, input, digest, chain, once, exec, keys, agg, signer, unpacker, layout, parsing, encoding, loader, binding, base64>>

(***************************************************************************)
(* Digest binding: the ECDSA regions of SgxDcapVerifierCircuit and of      *)
(* Base64Circuit.                                                          *)
(***************************************************************************)
\* the messages digested in-circuit (qe_report) and the key that signed them
QeReports == { << 5, 6, 7 >>, << 1, 2 >>, << 9 >> }

QeKey == ScalarMul(4, Generator)

QeReportSig(msg) == Sign(4, FromBytesBe(Sha256(msg)), 3)

\* the inner product of the digest bytes with [2^248, .., 2^8, 2^0] in the
\* native field
msghash_mod_by_fr_p(msg) == FromBytesBe(Sha256(msg)) % FrModulus

\* the constraints on the cells of the ECDSA region: the signature check must
\* give 1 in both circuits; only SgxDcapVerifierCircuit asserts the native
\* value of m equal to the inner product of the digest bytes
DigestSatisfied(d) ==
  /\ d.circuit = "sgx" => d.m % FrModulus = msghash_mod_by_fr_p(d.msg)
  /\ ecdsa_verify_no_pubkey_check(d.pk, d.r, d.s, d.m) = 1

DigestIdle ==
  [ stage |-> "idle", circuit |-> "", report |-> <<>>, msg |-> <<>>, m |-> 0, r |-> 0,
    s |-> 0, pk |-> Infinity ]

DigestInit ==
  digest \in { [ DigestIdle EXCEPT !.stage = "init", !.circuit = c, !.report = q ] :
                 c \in { "sgx", "base64" }, q \in QeReports }

\* synthesize: the message is digested and m is loaded from the digest
DigestSynthesize ==
  /\ digest.stage = "init"
  /\ digest' = [ digest EXCEPT !.stage = "assigned",
                   !.msg = digest.report,
                   !.m   = IF digest.circuit = "sgx"
                           THEN FromBytesLe(Reverse(Sha256(digest.report)))
                           ELSE msghash_mod_by_fr_p(digest.report),
                   !.r   = QeReportSig(digest.report).r,
                   !.s   = QeReportSig(digest.report).s,
                   !.pk  = QeKey ]
  /\ UNCHANGED <<codec, batch, prover, input, check, chain, once, exec, keys, agg, signer, unpacker, layout, parsing, encoding, loader, binding, base64>>

\* one byte of the digested message is assigned another value; the cells of
\* m, r, s and the key keep theirs
DigestChangeByte ==
  /\ digest.stage = "assigned"
  /\ \E i \in 1..Len(digest.msg), v \in Byte :
        /\ v # digest.msg[i]
        /\ v \in MsgBytes \cup { digest.msg[i] + 1 }
        /\ digest' = [ digest EXCEPT !.stage = "changed", !.msg[i] = v ]
  /\ UNCHANGED <<codec, batch, prover, input, check, chain, once, exec, keys, agg, signer, unpacker, layout, parsing, encoding, loader, binding, base64>>


(***************************************************************************)
(* Certificate chains of a quote: VerifyQuoteCerts::generate_instances and *)
(* ExtractCerts::run.                                                      *)
(***************************************************************************)
MaxCerts == 3

\* a certificate of the key own_sk, its to-be-signed body signed by issuer_sk
CertOf(own_sk, issuer_sk, k, tbs, serial) ==
  [ serial_number   |-> serial,
    tbs_certificate |-> tbs,
    signature       |-> GenuineInstance(issuer_sk, k, tbs).sig,
    pub_key         |-> PointBytes(ScalarMul(own_sk, Generator)) ]

\* quote.certs is ordered leaf first: PCK, intermediate, root (self-signed)
RootCert == CertOf(3, 3, 1, << 7 >>, << 1 >>)

IntermediateCert == CertOf(2, 3, 2, << 1, 2 >>, << 2 >>)

PckCert == CertOf(4, 2, 3, << 5 >>, << 3 >>)

\* the intermediate certificate with the last byte of its signature changed
CorruptedIntermediate ==
  [ IntermediateCert EXCEPT !.signature[2 * FieldBytes] = (@ + 1) % 256 ]

CertCatalog == { PckCert, IntermediateCert, CorruptedIntermediate, RootCert }

\* keccak_hash::keccak at scale
keccak(bytes) == ToBytesBe(Compress(11, bytes))

\* variant: every certificate taken as its own issuer
Issuer_SelfIssued(certs, idx) == certs[idx]

\* the issuer of certs[idx]: the next certificate, the last one is its own
Issuer(certs, idx) == IF idx = Len(certs) THEN certs[idx] ELSE certs[idx + 1]

generate_instances(certs) ==
  [ idx \in 1..Len(certs) |->
      [ pubkey |-> Issuer(certs, idx).pub_key,
        sig    |-> certs[idx].signature,
        msg    |-> certs[idx].tbs_certificate ] ]

\* what ExtractCerts::run prints for each certificate
ExtractCerts_run(certs) ==
  [ idx \in 1..Len(certs) |->
      [ serial_number      |-> certs[idx].serial_number,
        tbs_certificate    |-> certs[idx].tbs_certificate,
        signature          |-> certs[idx].signature,
        issuer_pubkey_hash |-> keccak(Issuer(certs, idx).pub_key) ] ]

ChainIdle == [ stage |-> "idle", certs |-> <<>>, instances |-> <<>>, printed |-> <<>> ]

ChainInit ==
  chain \in { [ ChainIdle EXCEPT !.stage = "parsed", !.certs = c ] :
                c \in SeqsUpTo(CertCatalog, MaxCerts) }

ChainGenerateInstances ==
  /\ chain.stage = "parsed"
  /\ chain' = [ chain EXCEPT !.stage = "instances",
                             !.instances = generate_instances(chain.certs) ]
  /\ UNCHANGED <<codec, batch, prover, input, check, digest, once, exec, keys, agg, signer, unpacker, layout, parsing, encoding, loader, binding, base64>>

ChainExtractCerts ==
  /\ chain.stage = "parsed"
  /\ chain' = [ chain EXCEPT !.stage = "printed",
                             !.printed = ExtractCerts_run(chain.certs) ]
  /\ UNCHANGED <<codec, batch, prover, input, check, digest, once, exec, keys, agg, signer, unpacker, layout, parsing, encoding, loader, binding, base64>>

(***************************************************************************)
(* The reference tables: TcbInfo::get and EnclaveId::get, each a           *)
(* function-local static OnceLock filled by get_or_init(load().unwrap()).  *)
(***************************************************************************)
MaxThreads == 2

MaxCalls == 2

Threads == 1..MaxThreads

\* the two statics: TCB_INFO of TcbInfo::get, READ_ONLY of EnclaveId::get
Cells == { "TCB_INFO", "READ_ONLY" }

\* TcbInfo::load / EnclaveId::load: the table parsed from the embedded
\* asset; n tells the objects of two executions of load apart
load(cell, n) ==
  [ asset  |-> IF cell = "TCB_INFO" THEN "tcbinfo.json" ELSE "identity.json",
    loaded |-> n ]

NoTable == [ asset |-> "", loaded |-> 0 ]

\* variant: a caller that finds the cell not yet complete runs the
\* initialiser even while another one is running it
OnceMustInit_Racy(state) == state # "complete"

\* OnceLock::get_or_init: the initialiser is run by the one caller that finds
\* the cell incomplete; callers arriving while it runs block until it is done
OnceMustInit(state) == state = "incomplete"

OnceIdle ==
  [ stage  |-> "idle",
    cell   |-> [ c \in Cells |-> [ state |-> "incomplete", value |-> NoTable, loads |-> 0 ] ],
    thread |-> [ t \in Threads |-> [ pc |-> "ready", cell |-> "", calls |-> 0, got |-> <<>> ] ] ]

OnceInit == once = [ OnceIdle EXCEPT !.stage = "run" ]

\* thread t enters get() of cell c
OnceGetOrInit(t, c) ==
  /\ once.stage = "run"
  /\ once.thread[t].pc = "ready"
  /\ once.thread[t].calls < MaxCalls
  /\ once' =
       IF once.cell[c].state = "complete"
       THEN [ once EXCEPT !.thread[t].calls = @ + 1,
                          !.thread[t].got = Append(@, [ cell |-> c, value |-> once.cell[c].value ]) ]
       ELSE IF OnceMustInit(once.cell[c].state)
       THEN [ once EXCEPT !.cell[c].state = "running",
                          !.cell[c].loads = @ + 1,
                          !.thread[t].pc = "init", !.thread[t].cell = c ]
       ELSE [ once EXCEPT !.thread[t].pc = "wait", !.thread[t].cell = c ]
  /\ UNCHANGED <<codec, batch, prover, input, check, digest, chain, exec, keys, agg, signer, unpacker, layout, parsing, encoding, loader, binding, base64>>

\* the initialiser of thread t returns: the cell is set and t gets the
\* reference
OnceRunInit(t) ==
  /\ once.thread[t].pc = "init"
  /\ LET c == once.thread[t].cell
         v == load(c, once.cell[c].loads)
     IN  once' = [ once EXCEPT !.cell[c].state = "complete",
                               !.cell[c].value = v,
                               !.thread[t].pc = "ready",
                               !.thread[t].calls = @ + 1,
                               !.thread[t].got = Append(@, [ cell |-> c, value |-> v ]) ]
  /\ UNCHANGED <<codec, batch, prover, input, check, digest, chain, exec, keys, agg, signer, unpacker, layout, parsing, encoding, loader, binding, base64>>

\* a blocked caller is released once the cell is complete
OnceWake(t) ==
  /\ once.thread[t].pc = "wait"
  /\ once.cell[once.thread[t].cell].state = "complete"
  /\ LET c == once.thread[t].cell
     IN  once' = [ once EXCEPT !.thread[t].pc = "ready",
                               !.thread[t].calls = @ + 1,
                               !.thread[t].got = Append(@, [ cell |-> c, value |-> once.cell[c].value ]) ]
  /\ UNCHANGED <<codec, batch, prover, input, check, digest, chain, exec, keys, agg, signer, unpacker, layout, parsing, encoding, loader, binding, base64>>

(***************************************************************************)
(* EvmProver::evm_verify call by call: the executor it builds, the one     *)
(* deployment and the one call it makes.                                   *)
(***************************************************************************)
MaxEvmCalls == 2

\* ExecutorBuilder::default().with_gas_limit(u64::MAX.into()).build(): an
\* executor with no contract and no call made
ExecutorBuilder_build == [ contracts |-> <<>>, calls |-> <<>> ]

\* a field element as one calldata word, most significant byte first (32
\* bytes in the code, FrBytes + 1 at scale)
WordBytes == FrBytes + 1

ToWord(v) == Reverse(ToBytesLe(v, WordBytes))

RECURSIVE Words(_)
Words(values) ==
  IF values = <<>> THEN <<>> ELSE ToWord(Head(values)) \o Words(Tail(values))

RECURSIVE Flatten(_)
Flatten(columns) ==
  IF columns = <<>> THEN <<>> ELSE Head(columns) \o Flatten(Tail(columns))

\* snark_verifier_sdk::encode_calldata: the instance words, then the proof
encode_calldata(instances, proof) == Words(Flatten(instances)) \o proof

generate_calldata(instances, proof) == encode_calldata(instances, proof)

\* what the generated verifier reads back from calldata: num_instance words,
\* the rest is the proof
CalldataInstances(calldata, num_instance) ==
  [ i \in 1..num_instance |->
      FromBytesBe(SubSeq(calldata, (i - 1) * WordBytes + 1, i * WordBytes)) ]

CalldataProof(calldata, num_instance) ==
  SubSeq(calldata, num_instance * WordBytes + 1, Len(calldata))

\* the instance count the verifier bytecode was generated for
VerifierNumInstance == Len(FlatInstances(PadInputs(<<>>)))

\* result.reverted of evm.call_raw on the deployed contract
CallReverts(code, calldata) ==
  IF code = "accepting" THEN FALSE
  ELSE IF Len(calldata) < VerifierNumInstance * WordBytes THEN TRUE
  ELSE ~ VerifyProof(ProofOfBytes(CalldataProof(calldata, VerifierNumInstance)),
                     CalldataInstances(calldata, VerifierNumInstance))

\* result.gas_used: grows with the calldata, more when the verifier runs to
\* its end
GasUsed(calldata, reverted) ==
  Len(calldata) + (IF reverted THEN 1 ELSE 2)

\* the calls explored: instances of a batch, proof bytes, deployment code
ExecCalls ==
  { [ instances |-> << FlatInstances(PadInputs(<< v >>)) >>, proof |-> ProofBytes(i),
      code |-> c ] :
      v \in { ValidInput, InvalidInput }, i \in { 1, Len(ProofCatalog) },
      c \in DeploymentCodes }

ExecIdle ==
  [ stage |-> "idle", todo |-> <<>>, done |-> <<>> ]

ExecInit ==
  exec \in { [ ExecIdle EXCEPT !.stage = "run", !.todo = l ] :
               l \in SeqsUpTo(ExecCalls, MaxEvmCalls) \ { <<>> } }

\* one evm_verify call from its first line to its return or panic; evm is a
\* local of the call
ExecEvmVerify ==
  /\ exec.stage = "run"
  /\ exec.todo # <<>>
  /\ LET call     == Head(exec.todo)
         evm      == ExecutorBuilder_build
         deployed == call.code # "reverting"
         evm1     == [ evm EXCEPT !.contracts = Append(@, call.code) ]
         calldata == generate_calldata(call.instances, call.proof)
         evm2     == [ evm1 EXCEPT !.calls = Append(@, calldata) ]
         reverted == CallReverts(call.code, calldata)
         entry    ==
           IF ~ deployed
           THEN [ call |-> call, kind |-> "panic", success |-> FALSE, gas_used |-> 0,
                  evm |-> evm ]
           ELSE [ call |-> call, kind |-> "returned",
                  success  |-> ~ reverted,
                  gas_used |-> GasUsed(calldata, reverted),
                  evm |-> evm2 ]
     IN  exec' = [ exec EXCEPT !.todo = Tail(@), !.done = Append(@, entry) ]
  /\ UNCHANGED <<codec, batch, prover, input, check, digest, chain, once, keys, agg, signer, unpacker, layout, parsing, encoding, loader, binding, base64>>

(***************************************************************************)
(* Key management: the files under ./params written by ECDSAProver::keygen *)
(* and read by from_files and by the CLI loaders, and the proving key file *)
(* EvmProver::new keeps per tag.                                           *)
(***************************************************************************)
DEGREE == 21

CliDegree == 18

\* load_verify_circuit_degree(): the degree of the aggregation circuit
AggDegree == 23

MaxKeyOps == 3

\* the shape of the circuit a build of the code makes: the p256-ecdsa batch
\* circuit (BATCH_SIZE, DEGREE) or EvmAggregator<agg, inner<_, batch_size>>
EcdsaShape(b, k) ==
  [ kind |-> "ecdsa", inner |-> "", batch_size |-> b, degree |-> k, agg |-> 0 ]

AggShape(n, inner, b) ==
  [ kind |-> "aggregator", inner |-> inner, batch_size |-> b, degree |-> AggDegree,
    agg |-> n ]

NoShape == [ kind |-> "", inner |-> "", batch_size |-> 0, degree |-> 0, agg |-> 0 ]

\* the shape of the code as it is, and the builds explored beside it
CodeShape == EcdsaShape(BATCH_SIZE, DEGREE)

Builds == { CodeShape, EcdsaShape(1, DEGREE), EcdsaShape(2, DEGREE),
            EcdsaShape(BATCH_SIZE, DEGREE - 1) }

AggBuilds == { AggShape(n, "Secp256r1Circuit", b) : n \in 1..2, b \in 1..2 }

\* the advice cells one signature check takes (halo2-ecc, 3 limbs of 88
\* bits): a quarter of the rows of a degree-21 column
CellsPerInput == Pow(2, DEGREE - 2)

\* create_circuit without pinning: set_k, set_lookup_bits(17),
\* set_instance_columns(1), then calculate_params(Some(20))
BaseCircuitParams(shape) ==
  [ k |-> shape.degree,
    num_advice |-> cal_row_size(shape.batch_size * CellsPerInput,
                                Pow(2, shape.degree) - 20),
    lookup_bits |-> 17,
    num_instance_columns |-> 1 ]

\* (circuit.params(), circuit.break_points()): a break point where a column
\* is full
Pinning(shape) ==
  [ params |-> BaseCircuitParams(shape),
    break_points |-> [ i \in 1..(BaseCircuitParams(shape).num_advice - 1) |->
                         Pow(2, shape.degree) - 20 ] ]

NoPinning ==
  [ params |-> [ k |-> 0, num_advice |-> 0, lookup_bits |-> 0,
                 num_instance_columns |-> 0 ],
    break_points |-> <<>> ]

\* a proving or verifying key: the circuit it was generated from
KeyOf(shape) == [ shape |-> shape ]

NoKey == KeyOf(NoShape)

\* a verifier made from the key vk (native or generated bytecode) accepts a
\* proof made under the key pk exactly when they are keys of one circuit
VerifierAccepts(vk, pk) == vk # NoKey /\ vk.shape = pk.shape

\* read_pk / ProvingKey::from_bytes / VerifyingKey::from_bytes with the
\* circuit parameters the caller passes: the bytes parse when the file is
\* there and its columns are those of the parameters
read_pk(file, params) ==
  file # NoKey /\ BaseCircuitParams(file.shape) = params

\* snark_verifier_sdk::gen_pk with Some(path): the key read from the file
\* when it parses, else the key generated for the circuit (and written)
gen_pk(file, shape) ==
  IF read_pk(file, BaseCircuitParams(shape)) THEN file ELSE KeyOf(shape)

\* type_name::<C>() with the tag prefix of EvmAggregator::new
AggTag(shape) == << "aggregator", shape.inner, shape.batch_size >>

\* params_path(tag, params)
params_path(tag, k) == << "params", tag, "kzg_bn254", k, "srs" >>

PkPath == << "params", "pk.bin" >>

AggPaths == { params_path(AggTag(a), AggDegree) : a \in AggBuilds }

\* the files: pk.bin, vk.bin, pinning.json, the kzg_bn254_<k>.srs present,
\* and the key files of EvmProver::new by path
NoFiles ==
  [ pk |-> NoKey, vk |-> NoKey, pinning |-> NoPinning, srs |-> {},
    cache |-> [ path \in AggPaths |-> NoKey ] ]

NoProver == [ pk |-> NoKey, vk |-> NoKey, params_k |-> 0, pinning |-> NoPinning ]

KeysIdle ==
  [ stage |-> "idle", files |-> NoFiles, ops |-> 0, op |-> "", build |-> NoShape,
    outcome |-> "", prover |-> NoProver, before |-> NoFiles, used |-> {} ]

\* ./params as the program finds it: empty, or holding the downloaded
\* kzg_bn254_18.srs
KeysInit ==
  keys \in { [ KeysIdle EXCEPT !.stage = "run", !.files.srs = d ] :
               d \in { {}, { CliDegree } } }

\* ECDSAProver::keygen written out on the files
keygen(files, build) ==
  LET pk == gen_pk(files.pk, build)
  IN  [ files EXCEPT !.srs = @ \cup { build.degree },
                     !.pk = pk,
                     !.vk = pk,
                     !.pinning = Pinning(build) ]

\* ECDSAProver::from_files: None (NoProver) without pinning.json or when
\* pk.bin does not parse
from_files(files) ==
  IF files.pinning # NoPinning /\ read_pk(files.pk, files.pinning.params)
  THEN [ pk |-> files.pk, vk |-> files.pk, params_k |-> files.pinning.params.k,
         pinning |-> files.pinning ]
  ELSE NoProver

KeysDone(op, build, files, outcome, made, path) ==
  keys' = [ keys EXCEPT !.ops = @ + 1, !.op = op, !.build = build,
                        !.before = keys.files, !.files = files,
                        !.outcome = outcome, !.prover = made,
                        !.used = @ \cup { [ path |-> path, shape |-> build ] } ]

\* P256Ecdsa::Setup / build.rs: ECDSAProver::keygen in a build of shape b
KeysKeygen(b) ==
  /\ keys.stage = "run" /\ keys.ops < MaxKeyOps
  /\ KeysDone("keygen", b, keygen(keys.files, b), "ok",
              [ NoProver EXCEPT !.params_k = b.degree ], PkPath)
  /\ UNCHANGED <<codec, batch, prover, input, check, digest, chain, once, exec, agg, signer, unpacker, layout, parsing, encoding, loader, binding, base64>>

\* ECDSAProver::default in a build of shape b: from_files, else keygen and
\* from_files().unwrap()
KeysDefault(b) ==
  /\ keys.stage = "run" /\ keys.ops < MaxKeyOps
  /\ LET found == from_files(keys.files)
         files == IF found # NoProver
                  THEN [ keys.files EXCEPT !.srs = @ \cup { found.params_k } ]
                  ELSE keygen(keys.files, b)
         made  == from_files(files)
     IN  KeysDone("default", b, files, IF made = NoProver THEN "panic" ELSE "ok",
                  made, PkPath)
  /\ UNCHANGED <<codec, batch, prover, input, check, digest, chain, once, exec, agg, signer, unpacker, layout, parsing, encoding, loader, binding, base64>>

\* the CLI of a build of shape b making its prover:
\* ECDSAProver::new(Self::pk(), Self::params(), Self::pinning())
KeysCliProver(b) ==
  /\ keys.stage = "run" /\ keys.ops < MaxKeyOps
  /\ LET f  == keys.files
         ok == /\ f.pinning # NoPinning
               /\ read_pk(f.pk, f.pinning.params)
               /\ CliDegree \in f.srs
     IN  KeysDone("cli_prover", b, f, IF ok THEN "ok" ELSE "panic",
                  IF ok THEN [ pk |-> f.pk, vk |-> f.pk, params_k |-> CliDegree,
                               pinning |-> f.pinning ]
                  ELSE NoProver, PkPath)
  /\ UNCHANGED <<codec, batch, prover, input, check, digest, chain, once, exec, agg, signer, unpacker, layout, parsing, encoding, loader, binding, base64>>

\* the CLI of a build of shape b making its verifier in inner_verify_proof:
\* Self::vk() and Self::params()
KeysCliVerifier(b) ==
  /\ keys.stage = "run" /\ keys.ops < MaxKeyOps
  /\ LET f  == keys.files
         ok == /\ f.pinning # NoPinning
               /\ read_pk(f.vk, f.pinning.params)
               /\ CliDegree \in f.srs
     IN  KeysDone("cli_verifier", b, f, IF ok THEN "ok" ELSE "panic",
                  IF ok THEN [ pk |-> NoKey, vk |-> f.vk, params_k |-> CliDegree,
                               pinning |-> f.pinning ]
                  ELSE NoProver, << "params", "vk.bin" >>)
  /\ UNCHANGED <<codec, batch, prover, input, check, digest, chain, once, exec, agg, signer, unpacker, layout, parsing, encoding, loader, binding, base64>>

\* EvmAggregator::<n, C>::new: the key of the aggregation circuit goes
\* through gen_pk with the path of the tag; AggregationCircuit takes its
\* configuration from the environment, so a key file that is there parses
KeysAggregatorNew(a) ==
  /\ keys.stage = "run" /\ keys.ops < MaxKeyOps
  /\ LET path == params_path(AggTag(a), AggDegree)
         file == keys.files.cache[path]
         pk   == IF file # NoKey THEN gen_pk(file, file.shape) ELSE gen_pk(file, a)
     IN  KeysDone("aggregator", a,
                  [ keys.files EXCEPT !.srs = @ \cup { AggDegree }, !.cache[path] = pk ],
                  "ok",
                  [ pk |-> pk, vk |-> pk, params_k |-> AggDegree, pinning |-> NoPinning ],
                  path)
  /\ UNCHANGED <<codec, batch, prover, input, check, digest, chain, once, exec, agg, signer, unpacker, layout, parsing, encoding, loader, binding, base64>>

(***************************************************************************)
(* Aggregation: EvmAggregator and the pipeline of VerifyQuoteCerts::run    *)
(* (batch circuits, one snark per circuit, aggregation circuit, proof,     *)
(* evm_verify with the bytecode GenerateVerifier::run wrote).              *)
(***************************************************************************)
AggN == 2

\* instances.chunks(N)
Chunks(s, n) ==
  [ j \in 1..cal_row_size(Len(s), n) |-> SubSeq(s, (j - 1) * n + 1, Min(j * n, Len(s))) ]

\* the key EvmAggregator::new generates for the batch circuit
AggInnerKey == [ circuit |-> "Secp256r1Circuit", n |-> BatchN ]

\* a per-batch proof with its public inputs verifies against the key vk
SnarkVerifies(snark, vk) == snark.vk = vk /\ snark.valid

\* EvmAggregator::generate_snark: gen_snark_shplonk proves the circuit for
\* its own instances under pk; synthesize may panic, and a build with
\* debug assertions stops at an unsatisfied circuit
generate_snark(circuit, pk, debug_assertions) ==
  LET columns == CircuitInstances(circuit)
      ok      == ~ SynthesizePanics(columns) /\ Satisfied(SynthesizeWitness(columns))
  IN  [ panic     |-> SynthesizePanics(columns) \/ (debug_assertions /\ ~ ok),
        instances |-> columns,
        vk        |-> pk,
        valid     |-> ok ]

\* variant: the snark of the first circuit is pushed for every circuit
generate_circuit_FirstOnly(circuits, pk, debug_assertions) ==
  [ i \in 1..Len(circuits) |-> generate_snark(circuits[1], pk, debug_assertions) ]

\* EvmAggregator::generate_circuit: one snark per circuit, all under self.pk
generate_circuit(circuits, pk, debug_assertions) ==
  [ i \in 1..Len(circuits) |-> generate_snark(circuits[i], pk, debug_assertions) ]

\* the aggregation circuit verifies each snark up to the pairing and exposes
\* the accumulator; the generated verifier accepts when the pairing of the
\* accumulator holds, that is when every aggregated snark verifies
AggEvmAccepts(snarks, pk) ==
  \A i \in 1..Len(snarks) : SnarkVerifies(snarks[i], pk)

AggIdle ==
  [ stage |-> "idle", certs |-> <<>>, debug_assertions |-> FALSE, verifier |-> "",
    circuits |-> <<>>, snarks |-> <<>>, outcome |-> "", success |-> FALSE ]

AggInit ==
  agg \in { [ AggIdle EXCEPT !.stage = "start", !.certs = c, !.debug_assertions = d ] :
              c \in SeqsUpTo(CertCatalog, MaxCerts + 1), d \in BOOLEAN }

\* GenerateVerifier::run: the deployment code of EvmAggregator::<2, _> over
\* the default circuit is written to the bytecode file
AggGenerateVerifier ==
  /\ agg.stage = "start"
  /\ agg' = [ agg EXCEPT !.stage = "ready", !.verifier = "verifier" ]
  /\ UNCHANGED <<codec, batch, prover, input, check, digest, chain, once, exec, keys, signer, unpacker, layout, parsing, encoding, loader, binding, base64>>

\* VerifyQuoteCerts::run from the parsed quote on: circuits.try_into() is an
\* array of AggN circuits or the unwrap panics
AggVerifyQuoteCerts ==
  /\ agg.stage = "ready"
  /\ LET instances == generate_instances(agg.certs)
         chunks    == Chunks(instances, BatchN)
         circuits  == [ j \in 1..Len(chunks) |-> Secp256r1Circuit_new(chunks[j]) ]
         snarks    == generate_circuit(circuits, AggInnerKey, agg.debug_assertions)
     IN  agg' =
           IF Len(circuits) # AggN
           THEN [ agg EXCEPT !.stage = "done", !.circuits = circuits,
                             !.outcome = "panic" ]
           ELSE IF \E i \in 1..Len(snarks) : snarks[i].panic
           THEN [ agg EXCEPT !.stage = "done", !.circuits = circuits,
                             !.outcome = "panic" ]
           ELSE [ agg EXCEPT !.stage = "done", !.circuits = circuits,
                             !.snarks = snarks, !.outcome = "returned",
                             !.success = AggEvmAccepts(snarks, AggInnerKey) ]
  /\ UNCHANGED <<codec, batch, prover, input, check, digest, chain, once, exec, keys, signer, unpacker, layout, parsing, encoding, loader, binding, base64>>

(***************************************************************************)
(* Signing and checking one signature: custom_parameters_ecdsa and         *)
(* ecdsa_test of p256-ecdsa, with the signatures a standard signer makes.  *)
(***************************************************************************)
\* the nonces explored: x(k*G) is below n for 1 and 3, and is 264 and 268
\* for 50 and 131
SignNonces == { 1, 3, 50, 131 }

SignKeys == { 1, 2 }

SignHashes == { 1, 3 }

InputOf(sig, pk, m) ==
  [ r |-> sig.r, s |-> sig.s, msghash |-> m, x |-> pk.x, y |-> pk.y ]

\* the assert_eq! of custom_parameters_ecdsa: the x coordinate of
\* u1*G + u2*pubkey, as bytes, against the bytes of r
HelperAssertHolds(in, p1) == ~ p1.inf /\ p1.x = in.r

HelperChecked(in, s_inv) ==
  HelperAssertHolds(in, EcAdd(ScalarMul(s_inv, Generator),
                              ScalarMul((in.r * s_inv) % Q, Point(in.x, in.y))))

\* custom_parameters_ecdsa(sk, m, k): s.invert().unwrap() panics on 0,
\* and the assert_eq! takes u1 = s_inv
HelperResult(in) ==
  IF in.s = 0 THEN Panic
  ELSE IF ~ HelperChecked(in, InvMod(in.s, Q)) THEN Panic
  ELSE Ok(in)

custom_parameters_ecdsa(sk, m, k) ==
  HelperResult(InputOf(Sign(sk, m, k), ScalarMul(sk, Generator), m))

\* the signature of a standard signer for the key sk * G
StandardSignature(sk, m, k) ==
  InputOf(Sign(sk, m, k), ScalarMul(sk, Generator), m)

SignerIdle ==
  [ stage |-> "idle", sk |-> 0, m |-> 0, k |-> 0, via |-> "",
    in |-> ECDSAInput_default, pass |-> 0 ]

SignerInit ==
  signer \in { [ SignerIdle EXCEPT !.stage = "start", !.sk = sk, !.m = m,
                                   !.k = k, !.via = via ] :
                 sk \in SignKeys, m \in SignHashes, k \in SignNonces,
                 via \in { "helper", "signer" } }

SignerAfter(made) ==
  IF made.kind = "panic" THEN [ signer EXCEPT !.stage = "panic" ]
  ELSE [ signer EXCEPT !.stage = "signed", !.in = made.value ]

\* the input is made: by custom_parameters_ecdsa, or by a standard signer
SignerSign ==
  /\ signer.stage = "start"
  /\ signer' =
       SignerAfter(IF signer.via = "signer"
                   THEN Ok(StandardSignature(signer.sk, signer.m, signer.k))
                   ELSE custom_parameters_ecdsa(signer.sk, signer.m, signer.k))
  /\ UNCHANGED <<codec, batch, prover, input, check, digest, chain, once, exec, keys, agg, unpacker, layout, parsing, encoding, loader, binding, base64>>

\* ecdsa_test: the pass boolean of the input
SignerEcdsaTest ==
  /\ signer.stage = "signed"
  /\ signer' = [ signer EXCEPT !.stage = "tested", !.pass = InputPass(signer.in) ]
  /\ UNCHANGED <<codec, batch, prover, input, check, digest, chain, once, exec, keys, agg, unpacker, layout, parsing, encoding, loader, binding, base64>>

(***************************************************************************)
(* read_unpack on any instance column, and cal_row_size on any sizes.      *)
(***************************************************************************)
MaxTotal == 8

MaxSingle == 3

MaxColumnLen == 3

\* field elements of a column: small lengths, a chunk of three non-zero
\* bytes, a chunk with a zero high byte; the columns explored declare a
\* length of at most MaxTotal, so that the rows read exist
ColumnValues == { 0, 1, 4, 7, 197121, 513 }

\* the rows read_unpack reads after the length element
ReadRows(start_row, instance_size) ==
  { start_row + i + 1 : i \in 0..(instance_size - 1) }

UnpackerIdle ==
  [ stage |-> "idle", column |-> <<>>, start_row |-> 0, msg |-> <<>>, rows |-> {},
    total |-> 0, single |-> 1, size |-> 0 ]

\* the columns and start rows explored
UnpackerColumns ==
  { cr \in SeqsUpTo(ColumnValues, MaxColumnLen) \X { 0, 1 } :
      cr[1] # <<>> /\ InstanceValue(cr[1], cr[2]) <= MaxTotal }

UnpackerInit ==
  unpacker \in
    { [ UnpackerIdle EXCEPT !.stage = "column", !.column = cr[1], !.start_row = cr[2] ] :
        cr \in UnpackerColumns }
    \cup
    { [ UnpackerIdle EXCEPT !.stage = "sizes", !.total = t, !.single = s ] :
        t \in 0..MaxTotal, s \in 1..MaxSingle }

UnpackerRead(msg_len) ==
  [ unpacker EXCEPT !.stage = "read",
      !.msg  = read_unpack(unpacker.column, unpacker.start_row),
      !.rows = ReadRows(unpacker.start_row, cal_row_size(msg_len, FrBytes)) ]

\* read_unpack(region, instance, start_row)
UnpackerReadUnpack ==
  /\ unpacker.stage = "column"
  /\ unpacker' = UnpackerRead(InstanceValue(unpacker.column, unpacker.start_row))
  /\ UNCHANGED <<codec, batch, prover, input, check, digest, chain, once, exec, keys, agg, signer, layout, parsing, encoding, loader, binding, base64>>

\* cal_row_size(total, single)
UnpackerCalRowSize ==
  /\ unpacker.stage = "sizes"
  /\ unpacker' = [ unpacker EXCEPT !.stage = "sized",
                     !.size = cal_row_size(unpacker.total, unpacker.single) ]
  /\ UNCHANGED <<codec, batch, prover, input, check, digest, chain, once, exec, keys, agg, signer, layout, parsing, encoding, loader, binding, base64>>

(***************************************************************************)
(* The rows of the slots: where Secp256r1Circuit::new puts each packed     *)
(* payload, and the rows synthesize reads the slots from.                  *)
(***************************************************************************)
\* Genuine1 with its public key in compressed form: a prefix byte and x
CompressedKey ==
  [ Genuine1 EXCEPT !.pubkey = << 2 >> \o SubSeq(Genuine1.pubkey, 1, FieldBytes) ]

\* a message with no key and no signature
MsgOnly == [ pubkey |-> <<>>, sig |-> <<>>, msg |-> << 1, 2 >> ]

LayoutCatalog == { Genuine1, Genuine2, Secp256r1Instance_default, CompressedKey, MsgOnly }

\* the row at which each of the packed payloads begins in the vector that
\* out.extend(pack(..)) builds, the first at row `row`
RECURSIVE SlotStarts(_, _)
SlotStarts(payloads, row) ==
  IF payloads = <<>> THEN <<>>
  ELSE << row >> \o SlotStarts(Tail(payloads), row + Len(pack(Head(payloads))))

\* the payloads new packs: the instances', then the placeholder's
PlacedPayloads(instances) ==
  [ i \in 1..BatchN |-> IF i <= Len(instances) THEN payload(instances[i])
                        ELSE payload(Secp256r1Instance_default) ]

LayoutIdle ==
  [ stage |-> "idle", input |-> <<>>, circuit |-> NoCircuit, starts |-> <<>>,
    rows |-> <<>> ]

LayoutInit ==
  layout \in { [ LayoutIdle EXCEPT !.stage = "input", !.input = l ] :
                 l \in SeqsUpTo(LayoutCatalog, BatchN) }

\* Secp256r1Circuit::new
LayoutNew ==
  /\ layout.stage = "input"
  /\ layout' = [ layout EXCEPT !.stage = "built",
                   !.circuit = Secp256r1Circuit_new(layout.input),
                   !.starts  = SlotStarts(PlacedPayloads(layout.input), 0) ]
  /\ UNCHANGED <<codec, batch, prover, input, check, digest, chain, once, exec, keys, agg, signer, unpacker, parsing, encoding, loader, binding, base64>>

\* the loop of synthesize: slot `row` is read from row * params_size
LayoutSynthesizeRows ==
  /\ layout.stage = "built"
  /\ layout' = [ layout EXCEPT !.stage = "read",
                   !.rows = [ i \in 1..BatchN |-> (i - 1) * params_size ] ]
  /\ UNCHANGED <<codec, batch, prover, input, check, digest, chain, once, exec, keys, agg, signer, unpacker, parsing, encoding, loader, binding, base64>>

(***************************************************************************)
(* One slot, from the instance to the parameters synthesize parses.        *)
(***************************************************************************)
\* Genuine1 with the r of its signature replaced by the bytes 0xff..ff
HighR == [ Genuine1 EXCEPT !.sig = [ i \in 1..FieldBytes |-> 255 ]
                                     \o SubSeq(Genuine1.sig, FieldBytes + 1, 2 * FieldBytes) ]

\* instances with a key of 2 * FieldBytes bytes and a signature of
\* 2 * FieldBytes bytes
SlotInstances ==
  { GenuineInstance(sk, k, msg) : sk \in { 1, 2, 3 }, k \in { 1, 3 },
                                  msg \in { << 1 >>, << 1, 2 >>, << 7, 0, 9 >> } }
    \cup { CorruptedSig, TamperedMsg, HighR }

ParsingIdle ==
  [ stage |-> "idle", inst |-> Secp256r1Instance_default, column |-> <<>>,
    panic |-> FALSE, params |-> EcdsaParams_keygen ]

ParsingInit ==
  parsing \in { [ ParsingIdle EXCEPT !.stage = "instance", !.inst = i ] : i \in SlotInstances }

\* Secp256r1Circuit::new: the packed payload of the instance
SlotPack ==
  /\ parsing.stage = "instance"
  /\ parsing' = [ parsing EXCEPT !.stage = "packed", !.column = pack(payload(parsing.inst)) ]
  /\ UNCHANGED <<codec, batch, prover, input, check, digest, chain, once, exec, keys, agg, signer, unpacker, layout, encoding, loader, binding, base64>>

SlotParsed(row) ==
  IF row.panic THEN [ parsing EXCEPT !.stage = "panic", !.panic = TRUE ]
  ELSE [ parsing EXCEPT !.stage = "parsed", !.params = row.params ]

\* synthesize: read_unpack of the slot, then EcdsaParams::parse(..).unwrap()
SlotSynthesizeRow ==
  /\ parsing.stage = "packed"
  /\ parsing' = SlotParsed(SynthesizeRow(parsing.column, 0))
  /\ UNCHANGED <<codec, batch, prover, input, check, digest, chain, once, exec, keys, agg, signer, unpacker, layout, encoding, loader, binding, base64>>

(***************************************************************************)
(* ECDSAInput::as_instances on two inputs.                                 *)
(***************************************************************************)
\* the field values explored: all limbs zero, two limbs set, the largest
\* scalar
EncodedValues == { 0, 17, Q - 1 }

\* the values one field of the second input is changed to: the lowest, the
\* middle and the highest limb alone
ChangedValues == { 1, Pow(2, Scale.limbBits), Pow(2, 2 * Scale.limbBits) }

EncodingFields == { "msghash", "r", "s", "x", "y" }

EncodingInputs ==
  [ msghash : EncodedValues, r : EncodedValues, s : EncodedValues,
    x : EncodedValues, y : EncodedValues ]

EncodingIdle ==
  [ stage |-> "idle", a |-> ECDSAInput_default, b |-> ECDSAInput_default,
    out_a |-> <<>>, out_b |-> <<>> ]

EncodingInit ==
  encoding \in
    { [ EncodingIdle EXCEPT !.stage = "inputs", !.a = a, !.b = [ a EXCEPT ![f] = v ] ] :
        a \in EncodingInputs, f \in EncodingFields, v \in ChangedValues }

\* as_instances of both inputs
EncodingAsInstances ==
  /\ encoding.stage = "inputs"
  /\ encoding' = [ encoding EXCEPT !.stage = "encoded",
                     !.out_a = as_instances(encoding.a),
                     !.out_b = as_instances(encoding.b) ]
  /\ UNCHANGED <<codec, batch, prover, input, check, digest, chain, once, exec, keys, agg, signer, unpacker, layout, parsing, loader, binding, base64>>

(***************************************************************************)
(* ECDSAProver::default over the files it may find under ./params.         *)
(***************************************************************************)
\* a pinning.json that serde_json does not parse
BadPinning ==
  [ params |-> NoPinning.params, break_points |-> << 0 >> ]

\* read_pinning: the parsed pinning (NoPinning for None), and the files
\* after it: a file that does not parse is removed
read_pinning(files) ==
  [ pinning |-> IF files.pinning = BadPinning THEN NoPinning ELSE files.pinning,
    files   |-> IF files.pinning = BadPinning
                THEN [ files EXCEPT !.pinning = NoPinning ] ELSE files ]

\* the files a run of shape a has left: nothing, the three files of its
\* keygen, or those with pinning.json missing or not parsing
LoaderFiles(a) ==
  { NoFiles } \cup
  { [ NoFiles EXCEPT !.pk = KeyOf(a), !.vk = KeyOf(a), !.pinning = p,
                     !.srs = { a.degree } ] :
      p \in { Pinning(a), NoPinning, BadPinning } }

LoaderIdle ==
  [ stage |-> "idle", before |-> NoFiles, files |-> NoFiles, build |-> NoShape,
    keygens |-> 0, prover |-> NoProver ]

LoaderInit ==
  loader \in { [ LoaderIdle EXCEPT !.stage = "start", !.before = f, !.files = f,
                                   !.build = b ] :
                 f \in UNION { LoaderFiles(a) : a \in Builds }, b \in Builds }

\* the first from_files of default, with the removal read_pinning makes
LoaderFromFiles ==
  /\ loader.stage = "start"
  /\ loader' = [ loader EXCEPT
                   !.files  = read_pinning(loader.files).files,
                   !.prover = from_files(read_pinning(loader.files).files),
                   !.stage  = IF from_files(read_pinning(loader.files).files) # NoProver
                              THEN "returned" ELSE "missing" ]
  /\ UNCHANGED <<codec, batch, prover, input, check, digest, chain, once, exec, keys, agg, signer, unpacker, layout, parsing, encoding, binding, base64>>

LoaderUnwrap(files) ==
  [ loader EXCEPT !.files = files, !.keygens = @ + 1, !.prover = from_files(files),
                  !.stage = IF from_files(files) = NoProver THEN "panic" ELSE "returned" ]

\* Self::keygen().unwrap(); Self::from_files().unwrap()
LoaderKeygenAndLoad ==
  /\ loader.stage = "missing"
  /\ loader' = LoaderUnwrap(keygen(loader.files, loader.build))
  /\ UNCHANGED <<codec, batch, prover, input, check, digest, chain, once, exec, keys, agg, signer, unpacker, layout, parsing, encoding, binding, base64>>

(***************************************************************************)
(* The digest and the scalar m in SgxDcapVerifierCircuit: the inner        *)
(* product of the digest bytes with the big-endian weights, and the        *)
(* assert_equal of m's native part with it.                                *)
(*                                                                         *)
(* BN254's modulus is about 0.19 of the order n of secp256r1 and below the *)
(* 2^256 of a digest; the native modulus of this part of the model is the  *)
(* prime in that proportion to the n of the scale.                         *)
(***************************************************************************)
NativeModulusAtN == 53

\* coffes: the constants 2^248, 2^240, ..., 2^0 as native field elements
coffes(fr) == [ i \in 1..FieldBytes |-> Pow(256, FieldBytes - i) % fr ]

\* inner_product_simple_with_assignments(ctx, coffes, hash_bytes)
inner_product_simple(a, b, fr) ==
  SumSeq([ i \in 1..Len(a) |-> (a[i] * b[i]) % fr ]) % fr

\* the native part of a scalar loaded with fq_chip.load_private
NativeOf(m, fr) == m % fr

\* the scalars a witness may hold in m_assigned
BindingScalars == 0..(Q - 1)

BindingIdle ==
  [ stage |-> "idle", report |-> <<>>, hash_bytes |-> <<>>, msghash |-> 0, m |-> 0,
    equal |-> FALSE ]

BindingInit ==
  binding \in { [ BindingIdle EXCEPT !.stage = "init", !.report = q, !.m = m ] :
                  q \in QeReports, m \in BindingScalars }

\* region "dynamic sha2": the digest bytes and their inner product
BindingDigest ==
  /\ binding.stage = "init"
  /\ binding' = [ binding EXCEPT !.stage = "digested",
                    !.hash_bytes = Sha256(binding.report),
                    !.msghash = inner_product_simple(coffes(NativeModulusAtN),
                                                     Sha256(binding.report),
                                                     NativeModulusAtN) ]
  /\ UNCHANGED <<codec, batch, prover, input, check, digest, chain, once, exec, keys, agg, signer, unpacker, layout, parsing, encoding, loader, base64>>

\* region "ECDSA": assert_equal(m_assigned.native(), msghash_mod_by_fr_p)
BindingAssertEqual ==
  /\ binding.stage = "digested"
  /\ binding' = [ binding EXCEPT !.stage = "asserted",
                    !.equal = (NativeOf(binding.m, NativeModulusAtN) = binding.msghash) ]
  /\ UNCHANGED <<codec, batch, prover, input, check, digest, chain, once, exec, keys, agg, signer, unpacker, layout, parsing, encoding, loader, base64>>

(***************************************************************************)
(* Base64: base64_assign_values of Base64Circuit and of                    *)
(* SgxDcapVerifierCircuit (the same code), the lookups create_bit_lookup   *)
(* configures, and the bit decomposition table.  The table module          *)
(* (table.rs) is not among the sources; the table is the one the lookups   *)
(* presuppose: one row per byte value v with its four 2-bit groups, and in *)
(* the rows of the 64 values of a symbol the character of the value.       *)
(***************************************************************************)
Base64Groups == 2

SHAHASH_BASE64_STRING_LEN == 4 * Base64Groups     \* 1696 in the code

Base64Rows == 0..(SHAHASH_BASE64_STRING_LEN - 1)

\* the character of the 6-bit value v in the standard alphabet
AlphabetChar(v) ==
  IF v < 26 THEN 65 + v
  ELSE IF v < 52 THEN 97 + (v - 26)
  ELSE IF v < 62 THEN 48 + (v - 52)
  ELSE IF v = 62 THEN 43 ELSE 47

map_character_to_encoded_value(c) == CHOOSE v \in 0..63 : AlphabetChar(v) = c

\* row v of the table: groups[k] is the k-th 2-bit group of v from the low
\* end; the rows past 63 hold no character
TableRow(v) ==
  [ character     |-> IF v < 64 THEN AlphabetChar(v) ELSE 0,
    value_decoded |-> v,
    bit_decompositions |-> [ k \in 0..3 |-> (v \div Pow(4, k)) % 4 ] ]

\* general_purpose::STANDARD.decode on whole groups of symbols
DecodeGroup(v0, v1, v2, v3) ==
  << v0 * 4 + v1 \div 16, (v1 % 16) * 16 + v2 \div 4, (v2 % 4) * 64 + v3 >>

RECURSIVE StdDecode(_)
StdDecode(characters) ==
  IF Len(characters) < 4 THEN <<>>
  ELSE DecodeGroup(map_character_to_encoded_value(characters[1]),
                   map_character_to_encoded_value(characters[2]),
                   map_character_to_encoded_value(characters[3]),
                   map_character_to_encoded_value(characters[4]))
         \o StdDecode(SubSeq(characters, 5, Len(characters)))

\* variant: the groups of a symbol are laid out lowest first
BitColumn_LowFirst(i, j) == (i % 4) * 3 + (2 - j)

\* bit_decompositions[(i % 4) * 3 + j]
BitColumn(i, j) == (i % 4) * 3 + j

\* variant: the decoded bytes are copied without the gap
DecodedRow_NoGap(i) == i

\* the row of decoded_chars that decoded byte i is copied to
DecodedRow(i) == i + (i \div 3)

\* the value assigned for symbol i, group j
BitValue(characters, i, j) ==
  (map_character_to_encoded_value(characters[i + 1]) \div Pow(4, 2 - j)) % 4

\* the cell (col, row) of bit_decompositions: the value of the symbol and
\* group assigned there, 0 for a cell that is not assigned
BitCell(characters, col, row) ==
  IF \E i \in Base64Rows, j \in 0..2 : BitColumn(i, j) = col /\ i - (i % 4) = row
  THEN LET ij == CHOOSE ij \in Base64Rows \X (0..2) :
                   BitColumn(ij[1], ij[2]) = col /\ ij[1] - (ij[1] % 4) = row
       IN  BitValue(characters, ij[1], ij[2])
  ELSE 0

DecodedCell(decoded, row) ==
  IF \E i \in 0..(Len(decoded) - 1) : DecodedRow(i) = row
  THEN decoded[(CHOOSE i \in 0..(Len(decoded) - 1) : DecodedRow(i) = row) + 1]
  ELSE 0

\* base64_assign_values: the cells of the region
base64_assign_values(characters) ==
  [ decoded_chars_without_gap |-> StdDecode(characters),
    decoded_chars      |-> [ row \in Base64Rows |-> DecodedCell(StdDecode(characters), row) ],
    encoded_chars      |-> [ row \in Base64Rows |-> characters[row + 1] ],
    bit_decompositions |-> [ col \in 0..11 |->
                               [ row \in Base64Rows |-> BitCell(characters, col, row) ] ],
    q_decode_selector  |-> { i \in Base64Rows : i % 4 = 0 } ]

\* create_bit_lookup(meta, i, true, ENCODED_BIT_LOOKUP_COLS[i], [2, 1, 0]) at
\* a row where the selector is on
EncodedLookup(region, row, i) ==
  \E v \in 0..255 :
     /\ region.encoded_chars[row + i] = TableRow(v).character
     /\ \A t \in 0..2 :
          region.bit_decompositions[3 * i + t][row] = TableRow(v).bit_decompositions[2 - t]

\* create_bit_lookup(meta, i, false, DECODED_BIT_LOOKUP_COLS[i], [3, 2, 1, 0])
DecodedLookup(region, row, k) ==
  \E v \in 0..255 :
     /\ region.decoded_chars[row + k] = TableRow(v).value_decoded
     /\ \A t \in 0..3 :
          region.bit_decompositions[4 * k + t][row] = TableRow(v).bit_decompositions[3 - t]

LookupsHold(region) ==
  \A row \in region.q_decode_selector :
     /\ \A i \in 0..3 : EncodedLookup(region, row, i)
     /\ \A k \in 0..2 : DecodedLookup(region, row, k)

\* groups of four symbols: all-zero and all-one bits, "TWFu", "Zm9v", and
\* groups over the digits and the two last symbols of the alphabet
GroupCatalog ==
  { << 65, 65, 65, 65 >>, << 47, 47, 47, 47 >>, << 84, 87, 70, 117 >>,
    << 90, 109, 57, 118 >>, << 43, 47, 43, 47 >>, << 57, 56, 55, 54 >>,
    << 97, 98, 99, 100 >>, << 81, 85, 74, 68 >> }

RECURSIVE GroupStrings(_)
GroupStrings(n) ==
  IF n = 0 THEN { <<>> }
  ELSE { g \o s : g \in GroupCatalog, s \in GroupStrings(n - 1) }

NoRegion ==
  [ decoded_chars_without_gap |-> <<>>, decoded_chars |-> <<>>, encoded_chars |-> <<>>,
    bit_decompositions |-> <<>>, q_decode_selector |-> {} ]

Base64Idle == [ stage |-> "idle", characters |-> <<>>, region |-> NoRegion ]

Base64Init ==
  base64 \in { [ Base64Idle EXCEPT !.stage = "string", !.characters = s ] :
                 s \in GroupStrings(Base64Groups) }

\* synthesize: the region "Assign all values"
Base64AssignValues ==
  /\ base64.stage = "string"
  /\ base64' = [ base64 EXCEPT !.stage = "assigned",
                   !.region = base64_assign_values(base64.characters) ]
  /\ UNCHANGED <<codec, batch, prover, input, check, digest, chain, once, exec, keys, agg, signer, unpacker, layout, parsing, encoding, loader, binding>>

InitCodec ==
  /\ CodecInit
  /\ batch = BatchIdle /\ prover = ProverIdle /\ input = InputIdle
  /\ check = CheckIdle /\ digest = DigestIdle
  /\ chain = ChainIdle
  /\ once = OnceIdle
  /\ exec = ExecIdle
  /\ keys = KeysIdle
  /\ agg = AggIdle
  /\ signer = SignerIdle
  /\ unpacker = UnpackerIdle
  /\ layout = LayoutIdle
  /\ parsing = ParsingIdle
  /\ encoding = EncodingIdle
  /\ loader = LoaderIdle
  /\ binding = BindingIdle
  /\ base64 = Base64Idle

InitBatch ==
  /\ BatchInit
  /\ codec = CodecIdle /\ prover = ProverIdle /\ input = InputIdle
  /\ check = CheckIdle /\ digest = DigestIdle
  /\ chain = ChainIdle
  /\ once = OnceIdle
  /\ exec = ExecIdle
  /\ keys = KeysIdle
  /\ agg = AggIdle
  /\ signer = SignerIdle
  /\ unpacker = UnpackerIdle
  /\ layout = LayoutIdle
  /\ parsing = ParsingIdle
  /\ encoding = EncodingIdle
  /\ loader = LoaderIdle
  /\ binding = BindingIdle
  /\ base64 = Base64Idle

InitInput ==
  /\ InputInit
  /\ codec = CodecIdle /\ batch = BatchIdle /\ prover = ProverIdle
  /\ check = CheckIdle /\ digest = DigestIdle
  /\ chain = ChainIdle
  /\ once = OnceIdle
  /\ exec = ExecIdle
  /\ keys = KeysIdle
  /\ agg = AggIdle
  /\ signer = SignerIdle
  /\ unpacker = UnpackerIdle
  /\ layout = LayoutIdle
  /\ parsing = ParsingIdle
  /\ encoding = EncodingIdle
  /\ loader = LoaderIdle
  /\ binding = BindingIdle
  /\ base64 = Base64Idle

InitProver ==
  /\ ProverInit
  /\ codec = CodecIdle /\ batch = BatchIdle /\ input = InputIdle
  /\ check = CheckIdle /\ digest = DigestIdle
  /\ chain = ChainIdle
  /\ once = OnceIdle
  /\ exec = ExecIdle
  /\ keys = KeysIdle
  /\ agg = AggIdle
  /\ signer = SignerIdle
  /\ unpacker = UnpackerIdle
  /\ layout = LayoutIdle
  /\ parsing = ParsingIdle
  /\ encoding = EncodingIdle
  /\ loader = LoaderIdle
  /\ binding = BindingIdle
  /\ base64 = Base64Idle

InitCheck ==
  /\ CheckInit
  /\ codec = CodecIdle /\ batch = BatchIdle /\ prover = ProverIdle
  /\ input = InputIdle /\ digest = DigestIdle
  /\ chain = ChainIdle
  /\ once = OnceIdle
  /\ exec = ExecIdle
  /\ keys = KeysIdle
  /\ agg = AggIdle
  /\ signer = SignerIdle
  /\ unpacker = UnpackerIdle
  /\ layout = LayoutIdle
  /\ parsing = ParsingIdle
  /\ encoding = EncodingIdle
  /\ loader = LoaderIdle
  /\ binding = BindingIdle
  /\ base64 = Base64Idle

InitDigest ==
  /\ DigestInit
  /\ codec = CodecIdle /\ batch = BatchIdle /\ prover = ProverIdle
  /\ input = InputIdle /\ check = CheckIdle
  /\ chain = ChainIdle
  /\ once = OnceIdle
  /\ exec = ExecIdle
  /\ keys = KeysIdle
  /\ agg = AggIdle
  /\ signer = SignerIdle
  /\ unpacker = UnpackerIdle
  /\ layout = LayoutIdle
  /\ parsing = ParsingIdle
  /\ encoding = EncodingIdle
  /\ loader = LoaderIdle
  /\ binding = BindingIdle
  /\ base64 = Base64Idle

InitChain ==
  /\ ChainInit
  /\ codec = CodecIdle /\ batch = BatchIdle /\ prover = ProverIdle
  /\ input = InputIdle /\ check = CheckIdle /\ digest = DigestIdle
  /\ once = OnceIdle
  /\ exec = ExecIdle
  /\ keys = KeysIdle
  /\ agg = AggIdle
  /\ signer = SignerIdle
  /\ unpacker = UnpackerIdle
  /\ layout = LayoutIdle
  /\ parsing = ParsingIdle
  /\ encoding = EncodingIdle
  /\ loader = LoaderIdle
  /\ binding = BindingIdle
  /\ base64 = Base64Idle

InitOnce ==
  /\ OnceInit
  /\ codec = CodecIdle /\ batch = BatchIdle /\ prover = ProverIdle
  /\ input = InputIdle /\ check = CheckIdle /\ digest = DigestIdle
  /\ chain = ChainIdle
  /\ exec = ExecIdle
  /\ keys = KeysIdle
  /\ agg = AggIdle
  /\ signer = SignerIdle
  /\ unpacker = UnpackerIdle
  /\ layout = LayoutIdle
  /\ parsing = ParsingIdle
  /\ encoding = EncodingIdle
  /\ loader = LoaderIdle
  /\ binding = BindingIdle
  /\ base64 = Base64Idle

InitExec ==
  /\ ExecInit
  /\ codec = CodecIdle /\ batch = BatchIdle /\ prover = ProverIdle
  /\ input = InputIdle /\ check = CheckIdle /\ digest = DigestIdle
  /\ chain = ChainIdle /\ once = OnceIdle
  /\ keys = KeysIdle
  /\ agg = AggIdle
  /\ signer = SignerIdle
  /\ unpacker = UnpackerIdle
  /\ layout = LayoutIdle
  /\ parsing = ParsingIdle
  /\ encoding = EncodingIdle
  /\ loader = LoaderIdle
  /\ binding = BindingIdle
  /\ base64 = Base64Idle

InitKeys ==
  /\ KeysInit
  /\ codec = CodecIdle /\ batch = BatchIdle /\ prover = ProverIdle
  /\ input = InputIdle /\ check = CheckIdle /\ digest = DigestIdle
  /\ chain = ChainIdle /\ once = OnceIdle /\ exec = ExecIdle
  /\ agg = AggIdle
  /\ signer = SignerIdle
  /\ unpacker = UnpackerIdle
  /\ layout = LayoutIdle
  /\ parsing = ParsingIdle
  /\ encoding = EncodingIdle
  /\ loader = LoaderIdle
  /\ binding = BindingIdle
  /\ base64 = Base64Idle

InitAgg ==
  /\ AggInit
  /\ codec = CodecIdle /\ batch = BatchIdle /\ prover = ProverIdle
  /\ input = InputIdle /\ check = CheckIdle /\ digest = DigestIdle
  /\ chain = ChainIdle /\ once = OnceIdle /\ exec = ExecIdle /\ keys = KeysIdle
  /\ signer = SignerIdle
  /\ unpacker = UnpackerIdle
  /\ layout = LayoutIdle
  /\ parsing = ParsingIdle
  /\ encoding = EncodingIdle
  /\ loader = LoaderIdle
  /\ binding = BindingIdle
  /\ base64 = Base64Idle

InitSigner ==
  /\ SignerInit
  /\ codec = CodecIdle
  /\ batch = BatchIdle
  /\ prover = ProverIdle
  /\ input = InputIdle
  /\ check = CheckIdle
  /\ digest = DigestIdle
  /\ chain = ChainIdle
  /\ once = OnceIdle
  /\ exec = ExecIdle
  /\ keys = KeysIdle
  /\ agg = AggIdle
  /\ unpacker = UnpackerIdle
  /\ layout = LayoutIdle
  /\ parsing = ParsingIdle
  /\ encoding = EncodingIdle
  /\ loader = LoaderIdle
  /\ binding = BindingIdle
  /\ base64 = Base64Idle

InitUnpacker ==
  /\ UnpackerInit
  /\ codec = CodecIdle
  /\ batch = BatchIdle
  /\ prover = ProverIdle
  /\ input = InputIdle
  /\ check = CheckIdle
  /\ digest = DigestIdle
  /\ chain = ChainIdle
  /\ once = OnceIdle
  /\ exec = ExecIdle
  /\ keys = KeysIdle
  /\ agg = AggIdle
  /\ signer = SignerIdle
  /\ layout = LayoutIdle
  /\ parsing = ParsingIdle
  /\ encoding = EncodingIdle
  /\ loader = LoaderIdle
  /\ binding = BindingIdle
  /\ base64 = Base64Idle

InitLayout ==
  /\ LayoutInit
  /\ codec = CodecIdle
  /\ batch = BatchIdle
  /\ prover = ProverIdle
  /\ input = InputIdle
  /\ check = CheckIdle
  /\ digest = DigestIdle
  /\ chain = ChainIdle
  /\ once = OnceIdle
  /\ exec = ExecIdle
  /\ keys = KeysIdle
  /\ agg = AggIdle
  /\ signer = SignerIdle
  /\ unpacker = UnpackerIdle
  /\ parsing = ParsingIdle
  /\ encoding = EncodingIdle
  /\ loader = LoaderIdle
  /\ binding = BindingIdle
  /\ base64 = Base64Idle

InitSlot ==
  /\ ParsingInit
  /\ codec = CodecIdle
  /\ batch = BatchIdle
  /\ prover = ProverIdle
  /\ input = InputIdle
  /\ check = CheckIdle
  /\ digest = DigestIdle
  /\ chain = ChainIdle
  /\ once = OnceIdle
  /\ exec = ExecIdle
  /\ keys = KeysIdle
  /\ agg = AggIdle
  /\ signer = SignerIdle
  /\ unpacker = UnpackerIdle
  /\ layout = LayoutIdle
  /\ encoding = EncodingIdle
  /\ loader = LoaderIdle
  /\ binding = BindingIdle
  /\ base64 = Base64Idle

InitEncoding ==
  /\ EncodingInit
  /\ codec = CodecIdle
  /\ batch = BatchIdle
  /\ prover = ProverIdle
  /\ input = InputIdle
  /\ check = CheckIdle
  /\ digest = DigestIdle
  /\ chain = ChainIdle
  /\ once = OnceIdle
  /\ exec = ExecIdle
  /\ keys = KeysIdle
  /\ agg = AggIdle
  /\ signer = SignerIdle
  /\ unpacker = UnpackerIdle
  /\ layout = LayoutIdle
  /\ parsing = ParsingIdle
  /\ loader = LoaderIdle
  /\ binding = BindingIdle
  /\ base64 = Base64Idle

InitLoader ==
  /\ LoaderInit
  /\ codec = CodecIdle
  /\ batch = BatchIdle
  /\ prover = ProverIdle
  /\ input = InputIdle
  /\ check = CheckIdle
  /\ digest = DigestIdle
  /\ chain = ChainIdle
  /\ once = OnceIdle
  /\ exec = ExecIdle
  /\ keys = KeysIdle
  /\ agg = AggIdle
  /\ signer = SignerIdle
  /\ unpacker = UnpackerIdle
  /\ layout = LayoutIdle
  /\ parsing = ParsingIdle
  /\ encoding = EncodingIdle
  /\ binding = BindingIdle
  /\ base64 = Base64Idle

InitBinding ==
  /\ BindingInit
  /\ codec = CodecIdle
  /\ batch = BatchIdle
  /\ prover = ProverIdle
  /\ input = InputIdle
  /\ check = CheckIdle
  /\ digest = DigestIdle
  /\ chain = ChainIdle
  /\ once = OnceIdle
  /\ exec = ExecIdle
  /\ keys = KeysIdle
  /\ agg = AggIdle
  /\ signer = SignerIdle
  /\ unpacker = UnpackerIdle
  /\ layout = LayoutIdle
  /\ parsing = ParsingIdle
  /\ encoding = EncodingIdle
  /\ loader = LoaderIdle
  /\ base64 = Base64Idle

InitBase64 ==
  /\ Base64Init
  /\ codec = CodecIdle
  /\ batch = BatchIdle
  /\ prover = ProverIdle
  /\ input = InputIdle
  /\ check = CheckIdle
  /\ digest = DigestIdle
  /\ chain = ChainIdle
  /\ once = OnceIdle
  /\ exec = ExecIdle
  /\ keys = KeysIdle
  /\ agg = AggIdle
  /\ signer = SignerIdle
  /\ unpacker = UnpackerIdle
  /\ layout = LayoutIdle
  /\ parsing = ParsingIdle
  /\ encoding = EncodingIdle
  /\ loader = LoaderIdle
  /\ binding = BindingIdle

Init ==
  \/ InitCodec \/ InitBatch \/ InitInput \/ InitProver \/ InitCheck \/ InitDigest
  \/ InitChain \/ InitOnce \/ InitExec \/ InitKeys \/ InitAgg
  \/ InitSigner
  \/ InitUnpacker
  \/ InitLayout
  \/ InitSlot
  \/ InitEncoding
  \/ InitLoader
  \/ InitBinding
  \/ InitBase64

Next ==
  \/ CodecPack \/ CodecUnpack
  \/ BatchNew \/ BatchSynthesize \/ BatchAssignAdvice
  \/ BatchGenerateProof \/ BatchEvmVerify
  \/ InputTryFromBytes \/ InputTryFromHex \/ InputNew \/ InputParse
  \/ ProverCreateProof
  \/ CheckInnerVerifyProof \/ CheckEvmVerify \/ CheckRunVerify
  \/ DigestSynthesize \/ DigestChangeByte
  \/ ChainGenerateInstances \/ ChainExtractCerts
  \/ \E t \in Threads, c \in Cells : OnceGetOrInit(t, c)
  \/ \E t \in Threads : OnceRunInit(t)
  \/ \E t \in Threads : OnceWake(t)
  \/ ExecEvmVerify
  \/ \E b \in Builds : KeysKeygen(b)
  \/ \E b \in Builds : KeysDefault(b)
  \/ \E b \in Builds : KeysCliProver(b)
  \/ \E b \in Builds : KeysCliVerifier(b)
  \/ \E a \in AggBuilds : KeysAggregatorNew(a)
  \/ AggGenerateVerifier \/ AggVerifyQuoteCerts
  \/ SignerSign \/ SignerEcdsaTest
  \/ UnpackerReadUnpack \/ UnpackerCalRowSize
  \/ LayoutNew \/ LayoutSynthesizeRows
  \/ SlotPack \/ SlotSynthesizeRow
  \/ EncodingAsInstances
  \/ LoaderFromFiles \/ LoaderKeygenAndLoad
  \/ BindingDigest \/ BindingAssertEqual
  \/ Base64AssignValues

Spec == Init /\ [][Next]_vars

(***************************************************************************)
(* C3: for every byte string m, pack followed by read_unpack (which takes   *)
(* the declared length from the first element) returns exactly m.          *)
(***************************************************************************)
C3_RoundTrip == codec.stage = "unpacked" => codec.out = codec.msg

\* a message with a partial last chunk, packed over the stale bytes of a full
\* chunk, has been read back
C3_Witness ==
  /\ codec.stage = "unpacked"
  /\ Len(codec.msg) = FrBytes + 1
  /\ codec.msg[Len(codec.msg)] = 0
  /\ codec.msg[FrBytes] = 255

(***************************************************************************)
(* C1: with public min_pass = k, the constraints of the batch circuit are   *)
(* satisfied only if exactly k of the N slots the circuit loaded satisfy   *)
(* the ECDSA verification equation.                                        *)
(***************************************************************************)
C1_ExactlyKPass ==
  batch.stage \in { "assigned", "proved", "checked" } /\ Satisfied(batch.witness)
    => PassSum(batch.witness.params) = batch.circuit.min_pass

(***************************************************************************)
(* C2: a proof accepted for an instance vector attests to exactly the      *)
(* triples and the min_pass encoded in that vector: the values the circuit *)
(* loaded are those of the public instance cells.                          *)
(***************************************************************************)
C2_InstancesBound ==
  batch.stage = "checked" /\ batch.success
    => batch.witness = SynthesizeWitness(batch.proof.columns)

(***************************************************************************)
(* C4: Secp256r1Circuit::new on k <= N instances builds exactly N slots,   *)
(* the k payloads in input order followed by N - k placeholder payloads,   *)
(* with min_pass = k; more than N instances are rejected.                  *)
(***************************************************************************)
C4_NewBuildsNSlots ==
  /\ batch.circuit # NoCircuit =>
       /\ Len(batch.input) <= BatchN
       /\ Len(batch.circuit.instances) = BatchN * params_size
       /\ \A i \in 1..BatchN :
            read_unpack(batch.circuit.instances, (i - 1) * params_size)
              = IF i <= Len(batch.input) THEN payload(batch.input[i])
                ELSE [ j \in 1..PayloadLen |-> 1 ]
       /\ batch.circuit.min_pass = Len(batch.input)
  /\ Len(batch.input) > BatchN => batch.stage \in { "input", "panic" }
  /\ batch.stage = "panic" /\ batch.circuit = NoCircuit => Len(batch.input) > BatchN

\* a circuit built from one genuine instance: one real slot, one placeholder
C4_Witness ==
  /\ batch.stage = "built"
  /\ batch.input = << Genuine1 >>
  /\ batch.circuit.min_pass = 1

(***************************************************************************)
(* C5 (as amended): a Secp256r1Circuit whose N slots all hold the           *)
(* placeholder is satisfied by the witness synthesize derives exactly when *)
(* its min_pass is 0, which is what new builds from no instance, and not   *)
(* when min_pass is N; every slot of an ECDSAProver batch made of           *)
(* ECDSAInput::default alone has pass boolean 1.                            *)
(***************************************************************************)
AllPlaceholder ==
  \A i \in 1..Len(batch.input) : batch.input[i] = Secp256r1Instance_default

C7_VerifiedBeforeReturn == prover.stage = "returned" => prover.verified

(***************************************************************************)
(* C8: a field of the wrong length given to try_from_hex, try_from_bytes,   *)
(* new or parse is surfaced to the caller as an error value.               *)
(***************************************************************************)
WrongLength ==
  CASE input.fn = "try_from_bytes" ->
         \/ Len(input.args[1]) # FieldBytes
         \/ Len(input.args[2]) # 2 * FieldBytes
         \/ Len(input.args[3]) # 2 * FieldBytes + 1
    [] input.fn = "try_from_hex" ->
         /\ \A i \in 1..3 : Len(input.args[i]) >= 2 /\ HexDecodable(Skip2(input.args[i]))
         /\ \/ Len(HexDecode(Skip2(input.args[1]))) # FieldBytes
            \/ Len(HexDecode(Skip2(input.args[2]))) # 2 * FieldBytes
            \/ Len(HexDecode(Skip2(input.args[3]))) # 2 * FieldBytes + 1
    [] input.fn = "new" -> \E i \in 1..5 : Len(input.args[i]) # FieldBytes
    [] input.fn = "parse" -> Len(input.args[1]) # PayloadLen
    [] OTHER -> FALSE

C8_WrongLengthRejected ==
  input.stage = "done" /\ WrongLength => input.outcome.kind = "err"

(***************************************************************************)
(* C9: checking a supplied proof that does not satisfy the verifying key   *)
(* and the public inputs yields the boolean false, for every proof and     *)
(* bytecode, and never a panic or an error.                                *)
(***************************************************************************)
ProofRejectable ==
  CASE check.op = "inner_verify_proof" ->
         ~ VerifyProof(check.proof, as_instances(check.in))
    [] check.op = "evm_verify" ->
         ~ VerifyProof(check.proof, FlatInstances(PadInputs(<< check.in >>)))
    [] check.op = "run" ->
         LET in == ECDSAInput_try_from_hex(Skip2(check.args[1]), Skip2(check.args[2]),
                                           Skip2(check.args[3]))
         IN  /\ \A i \in 1..4 : IsLiteral(check.args[i])
             /\ in.kind = "ok"
             /\ \/ ~ HexDecodable(Skip2(check.args[4]))
                \/ ~ VerifyProof(ProofOfBytes(HexDecode(Skip2(check.args[4]))),
                                 as_instances(in.value))
    [] OTHER -> FALSE

C9_InvalidProofFalse ==
  check.stage = "done" /\ ProofRejectable => check.outcome = "false"

(***************************************************************************)
(* C10: after one byte of the message digested in-circuit is changed, with *)
(* the scalar m of the signature check held fixed, the circuit's           *)
(* constraints are not satisfied.                                          *)
(***************************************************************************)
C10_DigestBound == digest.stage = "changed" => ~ DigestSatisfied(digest)

(***************************************************************************)
(* C17: pack(m) is len(m) followed by ceil(len(m)/B) chunks, chunk j being  *)
(* the little-endian value of bytes j*B..(j+1)*B of m with the bytes of the *)
(* final chunk past the end of m equal to zero; the empty message packs to *)
(* the single element 0.                                                   *)
(***************************************************************************)
ZeroPaddedChunk(msg, j) ==
  FromBytesLe([ i \in 1..FrBytes |->
                  IF j * FrBytes + i <= Len(msg) THEN msg[j * FrBytes + i] ELSE 0 ])

C17_ZeroPaddedChunks ==
  codec.stage \in { "packed", "unpacked" }
    => codec.packed =
         << Len(codec.msg) >>
           \o [ j \in 1..cal_row_size(Len(codec.msg), FrBytes) |->
                  ZeroPaddedChunk(codec.msg, j - 1) ]

(***************************************************************************)
(* C16: for a chain of L >= 1 certificates the extraction emits exactly L   *)
(* instances in chain order; instance i has the to-be-signed body and the  *)
(* signature of certificate i, and the public key of certificate i+1, the  *)
(* last instance that of its own certificate.                              *)
(***************************************************************************)
C16_ChainInstances ==
  chain.stage = "instances" /\ Len(chain.certs) >= 1
    => /\ Len(chain.instances) = Len(chain.certs)
       /\ \A i \in 1..Len(chain.certs) :
            /\ chain.instances[i].msg = chain.certs[i].tbs_certificate
            /\ chain.instances[i].sig = chain.certs[i].signature
            /\ i < Len(chain.certs)
                 => chain.instances[i].pubkey = chain.certs[i + 1].pub_key
            /\ i = Len(chain.certs)
                 => chain.instances[i].pubkey = chain.certs[i].pub_key

\* the instances of the chain PCK, intermediate, root have been extracted
C16_Witness ==
  /\ chain.stage = "instances"
  /\ chain.certs = << PckCert, IntermediateCert, RootCert >>
  /\ chain.instances[1].pubkey = IntermediateCert.pub_key
  /\ chain.instances[3].pubkey = RootCert.pub_key

(***************************************************************************)
(* C19: under every interleaving of concurrent callers, TcbInfo::get and    *)
(* EnclaveId::get load their table at most once, and every call returns    *)
(* the same value, the one the cell holds from then on.                    *)
(***************************************************************************)
C19_LoadedOnce ==
  /\ \A c \in Cells : once.cell[c].loads <= 1
  /\ \A t \in Threads : \A i \in 1..Len(once.thread[t].got) :
       /\ once.cell[once.thread[t].got[i].cell].state = "complete"
       /\ once.thread[t].got[i].value = once.cell[once.thread[t].got[i].cell].value
       /\ once.thread[t].got[i].value = load(once.thread[t].got[i].cell, 1)

\* two threads raced for TCB_INFO: one has run the initialiser and holds the
\* reference, the other arrived meanwhile and is about to be released
C19_Witness ==
  /\ once.cell["TCB_INFO"].state = "complete"
  /\ once.cell["TCB_INFO"].loads = 1
  /\ \E t, u \in Threads :
       /\ t # u
       /\ Len(once.thread[t].got) = 1
       /\ once.thread[t].got[1] = [ cell |-> "TCB_INFO", value |-> load("TCB_INFO", 1) ]
       /\ once.thread[u].pc = "wait"
       /\ once.thread[u].cell = "TCB_INFO"

(***************************************************************************)
(* C20: each evm_verify call deploys the given bytecode into a newly built *)
(* executor and makes exactly one call, with the calldata generate_calldata *)
(* encodes from (instances, proof); it reports success = the call did not  *)
(* revert and the gas used, and sees nothing of an earlier call.           *)
(***************************************************************************)
C20_FreshDeployOneCall ==
  \A i \in 1..Len(exec.done) :
    LET e        == exec.done[i]
        calldata == generate_calldata(e.call.instances, e.call.proof)
    IN  /\ e.kind = "returned"
        /\ e.evm.contracts = << e.call.code >>
        /\ e.evm.calls = << calldata >>
        /\ e.success = ~ CallReverts(e.call.code, calldata)
        /\ e.gas_used = GasUsed(calldata, CallReverts(e.call.code, calldata))

(***************************************************************************)
(* C13: a key used with a circuit of another shape is detected when the    *)
(* key is loaded: every prover or verifier that is constructed holds a key *)
(* and a pinning of the circuit its code builds; and a verifier of one     *)
(* circuit rejects the proofs made under the key of another.               *)
(***************************************************************************)
LoadedKey ==
  IF keys.op = "cli_verifier" THEN keys.prover.vk ELSE keys.prover.pk

C13_MismatchFatal ==
  /\ keys.outcome = "ok" /\ keys.op \in { "default", "cli_prover", "cli_verifier" }
       => /\ LoadedKey.shape = keys.build
          /\ keys.prover.pinning = Pinning(keys.build)
  /\ keys.outcome = "ok" /\ keys.op = "aggregator"
       => LoadedKey.shape = keys.build
  /\ \A x, y \in Builds \cup AggBuilds :
       x # y => ~ VerifierAccepts(KeyOf(x), KeyOf(y))

(***************************************************************************)
(* C14: persisted keys are keyed by a circuit-shape tag: provers whose      *)
(* circuits differ in shape never read or write the same key file.         *)
(***************************************************************************)
C14_KeyedByShape ==
  \A x, y \in keys.used : x.path = y.path => x.shape = y.shape

(***************************************************************************)
(* C15: after keygen is re-run for another circuit shape, the persisted    *)
(* proving key, verifying key and pinning are those of the new shape, and  *)
(* bytecode generated from the keys of before does not accept proofs made  *)
(* with the keys of now.                                                   *)
(***************************************************************************)
C15_RerunReplacesKeys ==
  keys.op = "keygen" /\ keys.before.pk # NoKey /\ keys.before.pk.shape # keys.build
    => /\ keys.files.pk = KeyOf(keys.build)
       /\ keys.files.vk = KeyOf(keys.build)
       /\ keys.files.pinning = Pinning(keys.build)
       /\ ~ VerifierAccepts(keys.before.vk, keys.files.pk)

(***************************************************************************)
(* C18: the structured reference string a prover or verifier is given has  *)
(* the degree of the circuit its key was generated for, on every path that *)
(* loads or generates it.                                                  *)
(***************************************************************************)
C18_SrsDegreeOfKey ==
  keys.outcome = "ok"
    => keys.prover.params_k =
         (IF keys.op = "keygen" THEN keys.files.pk ELSE LoadedKey).shape.degree

(***************************************************************************)
(* C11: the verification of an aggregated proof over M batches accepts     *)
(* exactly when each of the M per-batch proofs verifies against the one    *)
(* verifying key and its own public inputs.                                *)
(***************************************************************************)
BatchProofVerifies(circuit) ==
  SnarkVerifies(generate_snark(circuit, AggInnerKey, FALSE), AggInnerKey)

C12_TwoLinkChain ==
  agg.stage = "done"
    => /\ agg.certs = << IntermediateCert, RootCert >>
            => agg.outcome = "returned" /\ agg.success
       /\ agg.certs = << CorruptedIntermediate, RootCert >>
            => ~ (agg.outcome = "returned" /\ agg.success)

(***************************************************************************)
(* C21: the pass boolean of a slot is 1 exactly when r is the x coordinate *)
(* of (m/s)*G + (r/s)*pubkey reduced mod n, so every signature of a        *)
(* standard signer for the key sk*G has pass boolean 1.                    *)
(***************************************************************************)
XModNIsR(sum, r) == ~ sum.inf /\ sum.x % Q = r

StandardAcceptsWith(in, s_inv) ==
  XModNIsR(EcAdd(ScalarMul((in.msghash * s_inv) % Q, Generator),
                 ScalarMul((in.r * s_inv) % Q, Point(in.x, in.y))), in.r)

StandardAccepts(in) ==
  /\ in.r \in 1..(Q - 1) /\ in.s \in 1..(Q - 1)
  /\ StandardAcceptsWith(in, InvMod(in.s, Q))

C21_PassIffEquation ==
  signer.stage = "tested"
    => /\ signer.pass = 1 <=> StandardAccepts(signer.in)
       /\ signer.pass = 1

(***************************************************************************)
(* C23: cal_row_size(total, single) is the ceiling of total / single, and  *)
(* read_unpack reads that many chunks after the length element and returns *)
(* the first declared-length bytes of them.                                *)
(***************************************************************************)
Ceiling(total, single) ==
  CHOOSE q \in 0..total : q * single >= total /\ (q = 0 \/ (q - 1) * single < total)

RECURSIVE ChunkBytes(_, _, _)
ChunkBytes(column, first, last) ==
  IF first > last THEN <<>>
  ELSE ToBytesLe(InstanceValue(column, first), FrBytes) \o ChunkBytes(column, first + 1, last)

DeclaredLen == InstanceValue(unpacker.column, unpacker.start_row)

C23_CeilingChunksTruncated ==
  /\ unpacker.stage = "sized"
       => unpacker.size = Ceiling(unpacker.total, unpacker.single)
  /\ unpacker.stage = "read"
       => /\ unpacker.rows = (unpacker.start_row + 1)
                               ..(unpacker.start_row + Ceiling(DeclaredLen, FrBytes))
          /\ Len(unpacker.msg) = DeclaredLen
          /\ unpacker.msg =
               SubSeq(ChunkBytes(unpacker.column, unpacker.start_row + 1,
                                 unpacker.start_row + Ceiling(DeclaredLen, FrBytes)),
                      1, DeclaredLen)

\* a column whose last chunk holds more bytes than the declared length has
\* been read, and a size that does not divide has been computed
C23_Witness ==
  \/ /\ unpacker.stage = "read"
     /\ DeclaredLen = FrBytes + 1
     /\ unpacker.column = << 4, 197121, 197121 >>
     /\ unpacker.msg = << 1, 2, 3, 1 >>
  \/ /\ unpacker.stage = "sized" /\ unpacker.total = 7 /\ unpacker.single = 3
     /\ unpacker.size = 3

(***************************************************************************)
(* C27: the packed payload of every instance new places has params_size    *)
(* elements, so the instance vector has N * params_size elements, slot i   *)
(* begins at row params_size * i and synthesize reads it from that row.    *)
(***************************************************************************)
C27_SlotsAligned ==
  /\ layout.stage \in { "built", "read" }
       => /\ \A i \in 1..Len(layout.input) :
               Len(pack(payload(layout.input[i]))) = params_size
          /\ Len(layout.circuit.instances) = BatchN * params_size
          /\ Len(layout.circuit.instances) = Len(Secp256r1Circuit_default.instances)
          /\ \A i \in 1..BatchN : layout.starts[i] = params_size * (i - 1)
  /\ layout.stage = "read" => layout.rows = layout.starts

(***************************************************************************)
(* C29: for an instance with a key x || y and a signature r || s of full   *)
(* length, parsing the unpacked payload yields msg_hash = SHA-256(msg) and *)
(* x, y, r, s, each the big-endian integer of its field.                   *)
(***************************************************************************)
FieldOf(bytes, k) == FromBytesBe(SubSeq(bytes, (k - 1) * FieldBytes + 1, k * FieldBytes))

C29_ParseYieldsFields ==
  parsing.stage \in { "parsed", "panic" }
    => /\ parsing.stage = "parsed"
       /\ parsing.params = [ msg_hash |-> FromBytesBe(Sha256(parsing.inst.msg)),
                          x |-> FieldOf(parsing.inst.pubkey, 1),
                          y |-> FieldOf(parsing.inst.pubkey, 2),
                          r |-> FieldOf(parsing.inst.sig, 1),
                          s |-> FieldOf(parsing.inst.sig, 2) ]

(***************************************************************************)
(* C28: for an input list of any length create_proof proves BATCH_SIZE     *)
(* slots, the first min(len, BATCH_SIZE) inputs in order and then           *)
(* placeholders, over an instance vector of INSTANCES_LEN * BATCH_SIZE      *)
(* elements, and every input the caller supplied is covered by the proof.  *)
(***************************************************************************)
\* the elements of the i-th slot of an instance vector
ProofSlot(instances, i) ==
  SubSeq(instances, (i - 1) * 5 * Scale.numLimbs + 1, i * 5 * Scale.numLimbs)

C28_AllInputsCovered ==
  prover.stage = "returned"
    => /\ Len(prover.proof.instances) = 5 * Scale.numLimbs * BATCH_SIZE
       /\ \A i \in 1..BATCH_SIZE :
            ProofSlot(prover.proof.instances, i)
              = as_instances(IF i <= Len(prover.input) THEN prover.input[i]
                             ELSE ECDSAInput_default)
       /\ \A i \in 1..Len(prover.input) :
            /\ i <= BATCH_SIZE
            /\ ProofSlot(prover.proof.instances, i) = as_instances(prover.input[i])

(***************************************************************************)
(* C24: as_instances gives, for msghash, r, s, x, y in this order, the     *)
(* limbs of the value, lowest first, each below 2^LIMB_BITS and summing to *)
(* the value with weights 2^(LIMB_BITS * j): 5 * NUM_LIMBS elements in     *)
(* all, and different inputs have different encodings.                     *)
(***************************************************************************)
RECURSIVE LimbSum(_)
LimbSum(limbs) ==
  IF limbs = <<>> THEN 0
  ELSE Head(limbs) + Pow(2, Scale.limbBits) * LimbSum(Tail(limbs))

\* the limbs of the k-th value of an encoding
LimbsOf(out, k) == SubSeq(out, (k - 1) * Scale.numLimbs + 1, k * Scale.numLimbs)

EncodesInOrder(v, out) ==
  /\ Len(out) = 5 * Scale.numLimbs
  /\ \A j \in 1..Len(out) : out[j] \in 0..(Pow(2, Scale.limbBits) - 1)
  /\ LimbSum(LimbsOf(out, 1)) = v.msghash
  /\ LimbSum(LimbsOf(out, 2)) = v.r
  /\ LimbSum(LimbsOf(out, 3)) = v.s
  /\ LimbSum(LimbsOf(out, 4)) = v.x
  /\ LimbSum(LimbsOf(out, 5)) = v.y

C24_LimbEncoding ==
  encoding.stage = "encoded"
    => /\ EncodesInOrder(encoding.a, encoding.out_a)
       /\ EncodesInOrder(encoding.b, encoding.out_b)
       /\ encoding.a # encoding.b => encoding.out_a # encoding.out_b

\* two inputs that differ in the highest limb of y only have been encoded
C24_Witness ==
  /\ encoding.stage = "encoded"
  /\ encoding.a.y = 17
  /\ encoding.b = [ encoding.a EXCEPT !.y = Pow(2, 2 * Scale.limbBits) ]
  /\ encoding.out_b[5 * Scale.numLimbs] = 1
  /\ encoding.out_a[5 * Scale.numLimbs] = 0

(***************************************************************************)
(* C30: ECDSAProver::default returns a prover whose proving key and        *)
(* pinning come from one keygen run: the files as found when pinning.json  *)
(* parses and pk.bin reads with it, otherwise after one run of keygen; a   *)
(* pinning.json that does not parse is deleted, and after keygen pk.bin,   *)
(* vk.bin and pinning.json are those of the circuit keygen built.          *)
(***************************************************************************)
FoundUsable ==
  /\ loader.before.pinning \notin { NoPinning, BadPinning }
  /\ read_pk(loader.before.pk, loader.before.pinning.params)

C30_DefaultConsistent ==
  /\ loader.stage # "panic"
  /\ loader.stage \in { "missing", "returned" } => loader.files.pinning # BadPinning
  /\ loader.stage = "returned" /\ FoundUsable
       => /\ loader.keygens = 0
          /\ loader.files = loader.before
          /\ loader.prover.pk = loader.before.pk
          /\ loader.prover.pinning = loader.before.pinning
  /\ loader.stage = "returned" /\ ~ FoundUsable
       => /\ loader.keygens = 1
          /\ loader.files.pk = KeyOf(loader.build)
          /\ loader.files.vk = KeyOf(loader.build)
          /\ loader.files.pinning = Pinning(loader.build)
          /\ loader.prover.pk = KeyOf(loader.build)
          /\ loader.prover.pinning = Pinning(loader.build)

(***************************************************************************)
(* C22: the weighted sum of the digest bytes with the weights 2^248, ...,  *)
(* 2^0 is the big-endian value of the digest reduced modulo the native     *)
(* modulus, and a scalar m whose native part equals that sum is the        *)
(* digest: no other scalar has the same native reduction.                  *)
(***************************************************************************)
C22_NativePartDeterminesM ==
  /\ binding.stage \in { "digested", "asserted" }
       => binding.msghash = FromBytesBe(binding.hash_bytes) % NativeModulusAtN
  /\ binding.stage = "asserted" /\ binding.equal
       => binding.m = FromBytesBe(binding.hash_bytes)

(***************************************************************************)
(* C25: for every group of 4 symbols the bit groups assigned for the       *)
(* symbols, three per symbol with the highest first in the columns         *)
(* 3 * (i mod 4) + j, are the twelve groups the decoded lookups recombine  *)
(* four at a time, so the lookups hold and the bytes they admit are the    *)
(* standard decoding of the 4 symbols.                                     *)
(***************************************************************************)
\* the byte the table admits for the four groups of columns 4k .. 4k + 3
AdmittedBytes(region, row, k) ==
  { v \in 0..255 :
      \A t \in 0..3 :
         region.bit_decompositions[4 * k + t][row] = TableRow(v).bit_decompositions[3 - t] }

\* the groups the table admits for the symbol at row + i
AdmittedGroups(region, row, i) ==
  { [ t \in 0..2 |-> TableRow(v).bit_decompositions[2 - t] ] :
      v \in { w \in 0..255 : TableRow(w).character = region.encoded_chars[row + i] } }

C26_GappedLayout ==
  base64.stage = "assigned"
    => /\ \A i \in 0..(Len(base64.region.decoded_chars_without_gap) - 1) :
            base64.region.decoded_chars[i + (i \div 3)]
              = base64.region.decoded_chars_without_gap[i + 1]
       /\ base64.region.q_decode_selector
            = { 4 * g : g \in 0..(Base64Groups - 1) }
       /\ \A g \in 0..(Base64Groups - 1) :
            /\ \A i \in 0..3 :
                 base64.region.encoded_chars[4 * g + i] = base64.characters[4 * g + i + 1]
            /\ \A k \in 0..2 :
                 base64.region.decoded_chars[4 * g + k]
                   = StdDecode(base64.characters)[3 * g + k + 1]
            /\ base64.region.decoded_chars[4 * g + 3] = 0

\* "Zm9v" in the second group: its bytes "foo" are in rows 4, 5 and 6
C26_Witness ==
  /\ base64.stage = "assigned"
  /\ SubSeq(base64.characters, 5, 8) = << 90, 109, 57, 118 >>
  /\ base64.region.decoded_chars[4] = 102
  /\ base64.region.decoded_chars[5] = 111
  /\ base64.region.decoded_chars[6] = 111
  /\ 4 \in base64.region.q_decode_selector

=============================================================================
